---- MODULE Spec2Model ----
(***************************************************************************)
(* The WebSocket pairing relay of the lab management server: the two maps  *)
(* webSocketSessions / webSocketConnections, the message handlers that     *)
(* mutate them, the disconnect handler with its grace timer, and the       *)
(* hourly reaper.  A ws object and its connectionId are in one-to-one      *)
(* correspondence (one uuid per 'connection' event), so a connection id    *)
(* stands for both; 0 is the null ws.                                      *)
(*                                                                         *)
(* The geofence evaluator of utils/geofence.js is a pure function; it has  *)
(* a specification of its own, GeoSpec, whose initial states draw its      *)
(* inputs and whose steps apply it.                                        *)
(***************************************************************************)
EXTENDS Integers, Sequences, FiniteSets, TLC

VARIABLES
    readyState,            \* connection id -> "NEW" | "OPEN" | "CLOSED" | "GONE"
    webSocketConnections,  \* Map connectionId -> [sessionId, type]
    webSocketSessions,     \* Map sessionId -> session record
    timers,                \* pending setTimeout callbacks of the disconnect handler
    now,                   \* Date.now(), in milliseconds
    nextReap,              \* next firing time of setInterval(cleanupOldWebSocketSessions)
    sent,                  \* the sends made by the step just taken, in order
    last,                  \* the event just handled
    regDesktop,            \* per session: the register_desktop that awaits its register_mobile
    emptySince,            \* per session: since when both its slots are empty, -1 if they are not
    nsteps,                \* work done so far: 2 per inbound message, 1 per other event
    inbox,                 \* the prompts the clients have received and not yet answered
    geoUser,               \* the user's location handed to isWithinGeofence
    geoLab,                \* the lab's location handed to isWithinGeofence
    geoRadius,             \* the lab's geofence radius, in meters
    geolib,                \* "ok" | "broken": whether the calls into geolib return or throw
    geofenceCheck,         \* what the last call of isWithinGeofence returned or threw
    loginUser,             \* the user document POST /login finds, and whether the password matches
    loginResponse          \* the response of the last POST /login

relayVars == <<readyState, webSocketConnections, webSocketSessions, timers, now,
               nextReap, sent, last, regDesktop, emptySince, nsteps, inbox>>

geoVars == <<geoUser, geoLab, geoRadius, geolib, geofenceCheck, loginUser, loginResponse>>

vars == <<readyState, webSocketConnections, webSocketSessions, timers, now,
          nextReap, sent, last, regDesktop, emptySince, nsteps, inbox,
          geoUser, geoLab, geoRadius, geolib, geofenceCheck, loginUser, loginResponse>>

-----------------------------------------------------------------------------
(* Bounds of the model *)

MaxConns == 2
MaxSteps == 8
MaxHours == 2
MaxOffset == 4

(* Program constants *)
GRACE_MS == 300000
MAX_AGE_MS == 3600000
REAP_INTERVAL_MS == 3600000
GPS_ACCURACY_BUFFER == 30
R == 6371000

Conns == 1..MaxConns
NullWs == 0
SessionOrder == <<"S1", "S2">>
SessionIds == {SessionOrder[i] : i \in DOMAIN SessionOrder}
Emails == {"a@lab"}
LabNames == {"lab"}
Undefined == "undefined"

Location1 == [latitude |-> 129716, longitude |-> 775946, accuracy |-> 10]
Undef == [undefined |-> TRUE]
Locations == {Location1}
AuthDatas == { [credential |-> "cred-1", userEmail |-> Undefined, deviceInfo |-> Undefined] }
Distances == {44}

HalfGrace == GRACE_MS \div 2
MaxTime == MaxHours * REAP_INTERVAL_MS

-----------------------------------------------------------------------------
(* JavaScript Map and truthiness helpers *)

Has(m, k) == k \in DOMAIN m
Put(m, k, v) == [x \in DOMAIN m \cup {k} |-> IF x = k THEN v ELSE m[x]]
Del(m, k) == [x \in DOMAIN m \ {k} |-> m[x]]
EmptyMap == [x \in {} |-> Undef]

\* a || b on strings, with "undefined" the only falsy value that occurs
OrElse(a, b) == IF a = Undefined THEN b ELSE a

-----------------------------------------------------------------------------
(* Outbound messages *)

\* mutant: the send does not look at the state of the socket
Msg_IgnoresState(ws, type, body) == [to |-> ws, type |-> type, ok |-> TRUE, body |-> body]

Msg(ws, type, body) == [to |-> ws, type |-> type, ok |-> readyState[ws] = "OPEN", body |-> body]

\* sendMessage: a send to a null ws is skipped; a send to a ws that is not OPEN
\* is attempted and dropped (ok = FALSE)
sendMessage(ws, type, body) ==
    IF ws # NullWs THEN <<Msg(ws, type, body)>> ELSE <<>>

\* mutant: the broadcast goes to the slots of every session in the store
broadcastToSession_AllSessions(sessions, sessionId, type, body, excludeWs) ==
    LET slots(s) ==
            IF Has(sessions, s)
            THEN (IF sessions[s].desktopWs # NullWs /\ sessions[s].desktopWs # excludeWs
                  THEN sendMessage(sessions[s].desktopWs, type, body) ELSE <<>>)
                 \o
                 (IF sessions[s].mobileWs # NullWs /\ sessions[s].mobileWs # excludeWs
                  THEN sendMessage(sessions[s].mobileWs, type, body) ELSE <<>>)
            ELSE <<>>
    IN  slots(SessionOrder[1]) \o slots(SessionOrder[2])

broadcastToSession(sessions, sessionId, type, body, excludeWs) ==
    IF Has(sessions, sessionId)
    THEN LET session == sessions[sessionId] IN
         (IF session.desktopWs # NullWs /\ session.desktopWs # excludeWs
          THEN sendMessage(session.desktopWs, type, body) ELSE <<>>)
         \o
         (IF session.mobileWs # NullWs /\ session.mobileWs # excludeWs
          THEN sendMessage(session.mobileWs, type, body) ELSE <<>>)
    ELSE <<>>

-----------------------------------------------------------------------------
(* Handler results: the two maps after the handler and the sends it made *)

Result(conns, sessions, out) == [conns |-> conns, sessions |-> sessions, out |-> out]

NoChange(out) == Result(webSocketConnections, webSocketSessions, out)

\* mutant: the catch block only logs
invalidMessageFormat_Silent(ws) == NoChange(<<>>)

\* the catch block of the 'message' listener
invalidMessageFormat(ws) ==
    NoChange(sendMessage(ws, "error", [message |-> "Invalid message format"]))

newSession(ws, data) ==
    [desktopWs |-> ws, mobileWs |-> NullWs, authData |-> Undef,
     userEmail |-> data.userEmail, labName |-> data.labName,
     requireLocation |-> TRUE, createdAt |-> now,
     mode |-> Undefined, locationData |-> Undef, locationCheckResult |-> Undef]

\* mutant: every register_desktop starts the session afresh
handleDesktopRegistration_AlwaysNew(ws, data) ==
    LET sessionId == data.sessionId IN
    Result(Put(webSocketConnections, ws, [sessionId |-> sessionId, type |-> "desktop"]),
           Put(webSocketSessions, sessionId, newSession(ws, data)),
           sendMessage(ws, "desktop_registered",
                       [sessionId |-> sessionId, status |-> "waiting_for_mobile"]))

\* mutant: a desktop that registers for a session with a proof is told of it
handleDesktopRegistration_Replays(ws, data) ==
    LET sessionId == data.sessionId
        conns == Put(webSocketConnections, ws, [sessionId |-> sessionId, type |-> "desktop"])
        sessions ==
            IF ~Has(webSocketSessions, sessionId)
            THEN Put(webSocketSessions, sessionId, newSession(ws, data))
            ELSE [webSocketSessions EXCEPT ![sessionId].desktopWs = ws]
    IN  Result(conns, sessions,
               sendMessage(ws, "desktop_registered",
                           [sessionId |-> sessionId, status |-> "waiting_for_mobile"])
               \o
               (IF sessions[sessionId].authData # Undef
                THEN sendMessage(ws, "passkey_verified",
                                 [authData |-> sessions[sessionId].authData,
                                  nextStep |-> "location_check",
                                  requireLocation |-> sessions[sessionId].requireLocation])
                ELSE <<>>))

handleDesktopRegistration(ws, data) ==
    LET sessionId == data.sessionId
        conns == Put(webSocketConnections, ws, [sessionId |-> sessionId, type |-> "desktop"])
        sessions ==
            IF ~Has(webSocketSessions, sessionId)
            THEN Put(webSocketSessions, sessionId, newSession(ws, data))
            ELSE [webSocketSessions EXCEPT ![sessionId].desktopWs = ws]
    IN  Result(conns, sessions,
               sendMessage(ws, "desktop_registered",
                           [sessionId |-> sessionId, status |-> "waiting_for_mobile"]))

\* requireLocation !== undefined ? requireLocation : true
requireLocationOf(data) ==
    IF data.requireLocation # Undefined THEN data.requireLocation = "true" ELSE TRUE

\* mutant: the mobile_connected broadcast does not exclude the registering mobile
handleMobileRegistration_NotifiesAll(ws, data) ==
    LET sessionId == data.sessionId
        conns == Put(webSocketConnections, ws, [sessionId |-> sessionId, type |-> "mobile"])
    IN  IF Has(webSocketSessions, sessionId)
        THEN LET sessions == [webSocketSessions EXCEPT
                                 ![sessionId].mobileWs = ws,
                                 ![sessionId].requireLocation = requireLocationOf(data),
                                 ![sessionId].mode = OrElse(data.mode, "login")]
                 session == sessions[sessionId]
             IN  Result(conns, sessions,
                        sendMessage(ws, "mobile_registered",
                                    [sessionId |-> sessionId,
                                     requireLocation |-> session.requireLocation,
                                     mode |-> session.mode])
                        \o broadcastToSession(sessions, sessionId, "mobile_connected",
                                              [requireLocation |-> session.requireLocation,
                                               mode |-> session.mode], NullWs))
        ELSE Result(conns, webSocketSessions,
                    sendMessage(ws, "error", [message |-> "Invalid session ID"]))

\* mutant: a mobile registration for an unknown id creates the session
handleMobileRegistration_Ensures(ws, data) ==
    LET sessionId == data.sessionId
        conns == Put(webSocketConnections, ws, [sessionId |-> sessionId, type |-> "mobile"])
        known == IF Has(webSocketSessions, sessionId) THEN webSocketSessions
                 ELSE Put(webSocketSessions, sessionId,
                          [desktopWs |-> NullWs, mobileWs |-> NullWs, authData |-> Undef,
                           userEmail |-> Undefined, labName |-> Undefined,
                           requireLocation |-> TRUE, createdAt |-> now,
                           mode |-> Undefined, locationData |-> Undef,
                           locationCheckResult |-> Undef])
        sessions == [known EXCEPT
                        ![sessionId].mobileWs = ws,
                        ![sessionId].requireLocation = requireLocationOf(data),
                        ![sessionId].mode = OrElse(data.mode, "login")]
        session == sessions[sessionId]
    IN  Result(conns, sessions,
               sendMessage(ws, "mobile_registered",
                           [sessionId |-> sessionId,
                            requireLocation |-> session.requireLocation,
                            mode |-> session.mode])
               \o broadcastToSession(sessions, sessionId, "mobile_connected",
                                     [requireLocation |-> session.requireLocation,
                                      mode |-> session.mode], ws))

handleMobileRegistration(ws, data) ==
    LET sessionId == data.sessionId
        conns == Put(webSocketConnections, ws, [sessionId |-> sessionId, type |-> "mobile"])
    IN  IF Has(webSocketSessions, sessionId)
        THEN LET sessions == [webSocketSessions EXCEPT
                                 ![sessionId].mobileWs = ws,
                                 ![sessionId].requireLocation = requireLocationOf(data),
                                 ![sessionId].mode = OrElse(data.mode, "login")]
                 session == sessions[sessionId]
             IN  Result(conns, sessions,
                        sendMessage(ws, "mobile_registered",
                                    [sessionId |-> sessionId,
                                     requireLocation |-> session.requireLocation,
                                     mode |-> session.mode])
                        \o broadcastToSession(sessions, sessionId, "mobile_connected",
                                              [requireLocation |-> session.requireLocation,
                                               mode |-> session.mode], ws))
        ELSE Result(conns, webSocketSessions,
                    sendMessage(ws, "error", [message |-> "Invalid session ID"]))

\* mutant: both proof handlers record the kind of the handler they were copied from
authProofRecord_AlwaysAuthentication(authData, session, kind) ==
    [success |-> TRUE,
     credential |-> OrElse(authData.credential, "test-credential-id"),
     userEmail |-> OrElse(authData.userEmail, session.userEmail),
     deviceInfo |-> OrElse(authData.deviceInfo, "test"),
     timestamp |-> now,
     type |-> "authentication"]

\* the object literal assigned to session.authData
authProofRecord(authData, session, kind) ==
    [success |-> TRUE,
     credential |-> OrElse(authData.credential, "test-credential-id"),
     userEmail |-> OrElse(authData.userEmail, session.userEmail),
     deviceInfo |-> OrElse(authData.deviceInfo, "test"),
     timestamp |-> now,
     type |-> kind]

\* mutant: the desktop is notified of the proof but never told to request the location
proofSends_NoLocationRequest(ws, sessionId, sessions, confirmType, notifyType) ==
    LET session == sessions[sessionId] IN
    sendMessage(ws, confirmType,
                [sessionId |-> sessionId, requireLocation |-> session.requireLocation])
    \o
    (IF session.desktopWs # NullWs
     THEN sendMessage(session.desktopWs, notifyType,
                      [authData |-> session.authData, nextStep |-> "location_check",
                       requireLocation |-> session.requireLocation])
          \o
          (IF session.requireLocation
           THEN <<>>
           ELSE broadcastToSession(sessions, sessionId, "access_granted",
                                   [authData |-> session.authData,
                                    redirectTo |-> "/dashboard/employee"], NullWs))
     ELSE <<>>)

\* mutant: access is granted on the proof whether or not location is required
proofSends_AlwaysGrants(ws, sessionId, sessions, confirmType, notifyType) ==
    LET session == sessions[sessionId] IN
    sendMessage(ws, confirmType,
                [sessionId |-> sessionId, requireLocation |-> session.requireLocation])
    \o
    (IF session.desktopWs # NullWs
     THEN sendMessage(session.desktopWs, notifyType,
                      [authData |-> session.authData, nextStep |-> "location_check",
                       requireLocation |-> session.requireLocation])
          \o
          broadcastToSession(sessions, sessionId, "access_granted",
                             [authData |-> session.authData,
                              redirectTo |-> "/dashboard/employee"], NullWs)
     ELSE <<>>)

\* what the proof handlers send once the proof is stored
proofSends(ws, sessionId, sessions, confirmType, notifyType) ==
    LET session == sessions[sessionId] IN
    sendMessage(ws, confirmType,
                [sessionId |-> sessionId, requireLocation |-> session.requireLocation])
    \o
    (IF session.desktopWs # NullWs
     THEN sendMessage(session.desktopWs, notifyType,
                      [authData |-> session.authData, nextStep |-> "location_check",
                       requireLocation |-> session.requireLocation])
          \o
          (IF session.requireLocation
           THEN sendMessage(session.desktopWs, "request_location_from_mobile",
                            [sessionId |-> sessionId, authData |-> session.authData])
           ELSE broadcastToSession(sessions, sessionId, "access_granted",
                                   [authData |-> session.authData,
                                    redirectTo |-> "/dashboard/employee"], NullWs))
     ELSE <<>>)

\* mutant: the authData check is missing, an absent payload is taken as an empty one
proofHandler_NoAuthDataCheck(ws, data, kind, confirmType, notifyType) ==
    IF ~Has(webSocketConnections, ws) THEN NoChange(<<>>)
    ELSE
    LET sessionId == webSocketConnections[ws].sessionId
        authData == IF data.authData = Undef
                    THEN [credential |-> Undefined, userEmail |-> Undefined,
                          deviceInfo |-> Undefined]
                    ELSE data.authData
    IN  IF Has(webSocketSessions, sessionId)
        THEN LET sessions == [webSocketSessions EXCEPT ![sessionId].authData =
                                 authProofRecord(authData, webSocketSessions[sessionId], kind)]
             IN  Result(webSocketConnections, sessions,
                        proofSends(ws, sessionId, sessions, confirmType, notifyType))
        ELSE NoChange(sendMessage(ws, "error", [message |-> "Session not found"]))

proofHandler(ws, data, kind, confirmType, notifyType) ==
    IF ~Has(webSocketConnections, ws) THEN NoChange(<<>>)
    ELSE
    LET sessionId == webSocketConnections[ws].sessionId
        authData == data.authData
    IN  IF authData = Undef
        THEN NoChange(sendMessage(ws, "error",
                                  [message |-> "No authentication data received"]))
        ELSE IF Has(webSocketSessions, sessionId)
        THEN LET sessions == [webSocketSessions EXCEPT ![sessionId].authData =
                                 authProofRecord(authData, webSocketSessions[sessionId], kind)]
             IN  Result(webSocketConnections, sessions,
                        proofSends(ws, sessionId, sessions, confirmType, notifyType))
        ELSE NoChange(sendMessage(ws, "error", [message |-> "Session not found"]))

handlePasskeyAuthSuccess(ws, data) ==
    proofHandler(ws, data, "authentication", "passkey_verified_confirmed", "passkey_verified")

handlePasskeyCreated(ws, data) ==
    proofHandler(ws, data, "creation", "passkey_created_confirmed", "passkey_created")

\* mutant: the request is acknowledged to its sender and not forwarded to the mobile
handleLocationRequest_NotForwarded(ws, data) ==
    IF ~Has(webSocketConnections, ws) THEN NoChange(<<>>)
    ELSE NoChange(sendMessage(ws, "location_requested",
                              [sessionId |-> webSocketConnections[ws].sessionId]))

handleLocationRequest(ws, data) ==
    IF ~Has(webSocketConnections, ws) THEN NoChange(<<>>)
    ELSE
    LET sessionId == webSocketConnections[ws].sessionId IN
    IF Has(webSocketSessions, sessionId) /\ webSocketSessions[sessionId].mobileWs # NullWs
    THEN NoChange(sendMessage(webSocketSessions[sessionId].mobileWs, "request_location",
                              [sessionId |-> sessionId, authData |-> data.authData,
                               requestId |-> data.requestId]))
    ELSE NoChange(sendMessage(ws, "error",
                              [message |-> "Mobile device not connected",
                               sessionId |-> sessionId]))

\* the location object rebuilt field by field for the desktop
forwardedLocation(location) ==
    [latitude |-> location.latitude, longitude |-> location.longitude,
     accuracy |-> location.accuracy]

\* mutant: the location is stored before the desktop slot is checked
handleLocationReceived_StoresFirst(ws, data) ==
    IF ~Has(webSocketConnections, ws) THEN NoChange(<<>>)
    ELSE IF data.location = Undef THEN invalidMessageFormat(ws)
    ELSE
    LET sessionId == webSocketConnections[ws].sessionId
        sessions == IF Has(webSocketSessions, sessionId)
                    THEN [webSocketSessions EXCEPT ![sessionId].locationData = data.location]
                    ELSE webSocketSessions
    IN
    IF Has(webSocketSessions, sessionId) /\ webSocketSessions[sessionId].desktopWs # NullWs
    THEN Result(webSocketConnections, sessions,
                sendMessage(webSocketSessions[sessionId].desktopWs, "location_received",
                            [sessionId |-> sessionId,
                             location |-> forwardedLocation(data.location),
                             authData |-> data.authData]))
    ELSE Result(webSocketConnections, sessions,
                sendMessage(ws, "error",
                            [message |-> "Desktop not connected",
                             sessionId |-> sessionId]))

\* mutant: a desktop whose socket is not open counts as not connected
handleLocationReceived_ChecksOpen(ws, data) ==
    IF ~Has(webSocketConnections, ws) THEN NoChange(<<>>)
    ELSE IF data.location = Undef THEN invalidMessageFormat(ws)
    ELSE
    LET sessionId == webSocketConnections[ws].sessionId IN
    IF /\ Has(webSocketSessions, sessionId)
       /\ webSocketSessions[sessionId].desktopWs # NullWs
       /\ readyState[webSocketSessions[sessionId].desktopWs] = "OPEN"
    THEN Result(webSocketConnections,
                [webSocketSessions EXCEPT ![sessionId].locationData = data.location],
                sendMessage(webSocketSessions[sessionId].desktopWs, "location_received",
                            [sessionId |-> sessionId,
                             location |-> forwardedLocation(data.location),
                             authData |-> data.authData]))
    ELSE NoChange(sendMessage(ws, "error",
                              [message |-> "Desktop not connected",
                               sessionId |-> sessionId]))

handleLocationReceived(ws, data) ==
    IF ~Has(webSocketConnections, ws) THEN NoChange(<<>>)
    ELSE IF data.location = Undef THEN invalidMessageFormat(ws)  \* location.latitude throws
    ELSE
    LET sessionId == webSocketConnections[ws].sessionId IN
    IF Has(webSocketSessions, sessionId) /\ webSocketSessions[sessionId].desktopWs # NullWs
    THEN Result(webSocketConnections,
                [webSocketSessions EXCEPT ![sessionId].locationData = data.location],
                sendMessage(webSocketSessions[sessionId].desktopWs, "location_received",
                            [sessionId |-> sessionId,
                             location |-> forwardedLocation(data.location),
                             authData |-> data.authData]))
    ELSE NoChange(sendMessage(ws, "error",
                              [message |-> "Desktop not connected",
                               sessionId |-> sessionId]))

\* what handleLocationCheckComplete sends once the result is stored
checkCompleteSends(sessionId, sessions, data) ==
    LET session == sessions[sessionId] IN
    IF data.success
    THEN broadcastToSession(sessions, sessionId, "access_granted",
                            [distance |-> data.distance, location |-> data.location,
                             authData |-> session.authData,
                             redirectTo |-> "/dashboard/employee"], NullWs)
         \o
         (IF session.mobileWs # NullWs
          THEN sendMessage(session.mobileWs, "location_check_complete",
                           [success |-> TRUE, distance |-> data.distance,
                            location |-> data.location])
          ELSE <<>>)
    ELSE broadcastToSession(sessions, sessionId, "access_denied",
                            [message |-> OrElse(data.error, "Access denied. Location check failed."),
                             distance |-> data.distance, location |-> data.location,
                             authData |-> session.authData], NullWs)
         \o
         (IF session.mobileWs # NullWs
          THEN sendMessage(session.mobileWs, "location_check_complete",
                           [success |-> FALSE, distance |-> data.distance,
                            location |-> data.location,
                            error |-> OrElse(data.error, "Location check failed")])
          ELSE <<>>)

\* mutant: the verdict is broadcast but the result is not stored and not mirrored
handleLocationCheckComplete_BroadcastOnly(ws, data) ==
    IF ~Has(webSocketConnections, ws) THEN NoChange(<<>>)
    ELSE
    LET sessionId == webSocketConnections[ws].sessionId IN
    IF data.success
    THEN NoChange(broadcastToSession(webSocketSessions, sessionId, "access_granted",
                                     [distance |-> data.distance, location |-> data.location,
                                      redirectTo |-> "/dashboard/employee"], NullWs))
    ELSE NoChange(broadcastToSession(webSocketSessions, sessionId, "access_denied",
                                     [message |-> OrElse(data.error,
                                                         "Access denied. Location check failed."),
                                      distance |-> data.distance,
                                      location |-> data.location], NullWs))

\* mutant: the session is dropped once its verdict is out
handleLocationCheckComplete_ClosesSession(ws, data) ==
    IF ~Has(webSocketConnections, ws) THEN NoChange(<<>>)
    ELSE
    LET sessionId == webSocketConnections[ws].sessionId IN
    IF Has(webSocketSessions, sessionId)
    THEN Result(webSocketConnections, Del(webSocketSessions, sessionId),
                checkCompleteSends(sessionId, webSocketSessions, data))
    ELSE NoChange(<<>>)

handleLocationCheckComplete(ws, data) ==
    IF ~Has(webSocketConnections, ws) THEN NoChange(<<>>)
    ELSE
    LET sessionId == webSocketConnections[ws].sessionId IN
    IF Has(webSocketSessions, sessionId)
    THEN LET sessions == [webSocketSessions EXCEPT ![sessionId].locationCheckResult =
                             [success |-> data.success, distance |-> data.distance,
                              location |-> data.location, error |-> data.error]]
         IN  Result(webSocketConnections, sessions,
                    checkCompleteSends(sessionId, sessions, data))
    ELSE NoChange(<<>>)

\* mutant: a ping is answered only to a registered connection
onMessage_PingNeedsRegistration(ws, type, data) ==
    CASE type = "register_desktop" -> handleDesktopRegistration(ws, data)
      [] type = "register_mobile" -> handleMobileRegistration(ws, data)
      [] type = "passkey_auth_success" -> handlePasskeyAuthSuccess(ws, data)
      [] type = "passkey_created" -> handlePasskeyCreated(ws, data)
      [] type = "request_location" -> handleLocationRequest(ws, data)
      [] type = "location_received" -> handleLocationReceived(ws, data)
      [] type = "location_check_complete" -> handleLocationCheckComplete(ws, data)
      [] type = "ping" -> IF Has(webSocketConnections, ws)
                          THEN NoChange(sendMessage(ws, "pong", [timestamp |-> now]))
                          ELSE NoChange(<<>>)
      [] OTHER -> NoChange(sendMessage(ws, "error",
                                       [message |-> "Unknown message type", type |-> type]))

\* the switch of the 'message' listener
onMessage(ws, type, data) ==
    CASE type = "register_desktop" -> handleDesktopRegistration(ws, data)
      [] type = "register_mobile" -> handleMobileRegistration(ws, data)
      [] type = "passkey_auth_success" -> handlePasskeyAuthSuccess(ws, data)
      [] type = "passkey_created" -> handlePasskeyCreated(ws, data)
      [] type = "request_location" -> handleLocationRequest(ws, data)
      [] type = "location_received" -> handleLocationReceived(ws, data)
      [] type = "location_check_complete" -> handleLocationCheckComplete(ws, data)
      [] type = "ping" -> NoChange(sendMessage(ws, "pong", [timestamp |-> now]))
      [] OTHER -> NoChange(sendMessage(ws, "error",
                                       [message |-> "Unknown message type", type |-> type]))

-----------------------------------------------------------------------------
(* Inbound message payloads *)

DesktopRegData == [sessionId : SessionIds, userEmail : Emails, labName : LabNames]
MobileRegOptions == { [requireLocation |-> Undefined, mode |-> Undefined],
                      [requireLocation |-> "true", mode |-> "login"],
                      [requireLocation |-> "false", mode |-> "enroll"] }
MobileRegData == { [sessionId |-> s, requireLocation |-> o.requireLocation, mode |-> o.mode] :
                   s \in SessionIds, o \in MobileRegOptions }
ProofData == [authData : AuthDatas \cup {Undef}]
LocationRequestData == [authData : {Undef}, requestId : {"req-1"}]
LocationReceivedData == [location : Locations \cup {Undef}, authData : {Undef}]
CheckOutcomes == { [success |-> TRUE, error |-> Undefined],
                   [success |-> FALSE, error |-> Undefined],
                   [success |-> FALSE, error |-> "Outside geofence"] }
CheckCompleteData == { [success |-> o.success, distance |-> d, location |-> l, error |-> o.error] :
                       o \in CheckOutcomes, d \in Distances, l \in Locations }
NoData == [none |-> TRUE]

MessageTypes == {"register_desktop", "register_mobile", "passkey_auth_success",
                 "passkey_created", "request_location", "location_received",
                 "location_check_complete", "ping", "bogus"}

\* the session an inbound message is about: the id it names for a registration,
\* the id recorded for its connection otherwise
TargetOf(ws, type, data) ==
    IF type \in {"register_desktop", "register_mobile"} THEN data.sessionId
    ELSE IF type \in {"ping", "bogus"} THEN "none"
    ELSE IF Has(webSocketConnections, ws) THEN webSocketConnections[ws].sessionId
    ELSE "none"

\* session ids are interchangeable strings chosen by the clients: an id is first
\* used only once the ids before it in SessionOrder are in use
Known(s) == Has(webSocketSessions, s)
            \/ \E c \in DOMAIN webSocketConnections : webSocketConnections[c].sessionId = s
Usable(type, data) ==
    type \in {"register_desktop", "register_mobile"} =>
        \A i \in DOMAIN SessionOrder :
            SessionOrder[i] = data.sessionId =>
                \A j \in 1..(i - 1) : Known(SessionOrder[j])

NoReg == [conn |-> NullWs, created |-> FALSE]

\* bookkeeping of "register_desktop for S, then only messages of other sessions"
regAfterMessage(ws, type, data) ==
    [s \in SessionIds |->
        IF type = "register_desktop" /\ data.sessionId = s
        THEN [conn |-> ws, created |-> ~Has(webSocketSessions, s)]
        ELSE IF TargetOf(ws, type, data) = s THEN NoReg
        ELSE regDesktop[s]]

Event(ev, ws) == [ev |-> ev, conn |-> ws]

\* both slots of session s are null (!session.desktopWs && !session.mobileWs)
EmptySlots(sessions, s) ==
    /\ Has(sessions, s)
    /\ sessions[s].desktopWs = NullWs
    /\ sessions[s].mobileWs = NullWs

\* bookkeeping of the time at which both slots of a session became empty
emptyAfter(sessions) ==
    [s \in SessionIds |->
        IF EmptySlots(sessions, s)
        THEN IF EmptySlots(webSocketSessions, s) THEN emptySince[s] ELSE now
        ELSE -1]

-----------------------------------------------------------------------------
(* utils/geofence.js: the geofence evaluator *)

(* JavaScript values of a coordinate.  A number is held in units of 1e-4 degree
   (12.9720 degrees is 129720); a string is held as its characters, over the
   alphabet of StringCoordinates: an optional sign, digits, and a letter. *)
Num(v) == [t |-> "number", v |-> v]
Str(chars) == [t |-> "string", chars |-> chars]
NaN == [t |-> "NaN"]
UndefinedValue == [t |-> "undefined"]

Digits == {"0", "1", "2", "3", "4", "5", "6", "7", "8", "9"}

DigitValue(c) ==
    CASE c = "0" -> 0 [] c = "1" -> 1 [] c = "2" -> 2 [] c = "3" -> 3 [] c = "4" -> 4
      [] c = "5" -> 5 [] c = "6" -> 6 [] c = "7" -> 7 [] c = "8" -> 8 [] c = "9" -> 9

\* the longest prefix of chars made of digits
RECURSIVE digitsPrefix(_)
digitsPrefix(chars) ==
    IF chars = <<>> \/ Head(chars) \notin Digits
    THEN <<>>
    ELSE <<Head(chars)>> \o digitsPrefix(Tail(chars))

\* the number a sequence of digits denotes
RECURSIVE decimalValue(_)
decimalValue(ds) ==
    IF ds = <<>>
    THEN 0
    ELSE 10 * decimalValue(SubSeq(ds, 1, Len(ds) - 1)) + DigitValue(ds[Len(ds)])

\* parseFloat: a number is itself; of a string, the longest prefix that reads as
\* a number is taken and the rest is ignored, NaN if there is no such prefix;
\* undefined gives NaN.  The strings of the model hold whole degrees.
parseFloat(x) ==
    CASE x.t = "number" -> x
      [] x.t = "string" ->
            LET signed == x.chars # <<>> /\ Head(x.chars) \in {"-", "+"}
                rest == IF signed THEN Tail(x.chars) ELSE x.chars
                ds == digitsPrefix(rest)
            IN  IF ds = <<>>
                THEN NaN
                ELSE Num((IF signed /\ Head(x.chars) = "-" THEN -1 ELSE 1)
                         * decimalValue(ds) * 10000)
      [] OTHER -> NaN

isNaN(x) == x.t # "number"

\* x is a number, or a string all of which reads as a number
Numeric(x) ==
    \/ x.t = "number"
    \/ /\ x.t = "string"
       /\ LET signed == x.chars # <<>> /\ Head(x.chars) \in {"-", "+"}
              rest == IF signed THEN Tail(x.chars) ELSE x.chars
          IN  rest # <<>> /\ digitsPrefix(rest) = rest

\* validateLocation (the definition isWithinGeofence is exported with)
validateLocation(latitude, longitude) ==
    LET lat == parseFloat(latitude)
        lng == parseFloat(longitude)
    IN  /\ ~isNaN(lat)
        /\ ~isNaN(lng)
        /\ lat.v >= -90 * 10000
        /\ lat.v <= 90 * 10000
        /\ lng.v >= -180 * 10000
        /\ lng.v <= 180 * 10000

Abs(n) == IF n < 0 THEN -n ELSE n

\* Math.sqrt on integers, rounded down
RECURSIVE sqrtBetween(_, _, _)
sqrtBetween(n, lo, hi) ==
    IF lo >= hi
    THEN lo
    ELSE LET mid == (lo + hi + 1) \div 2
         IN  IF mid * mid <= n THEN sqrtBetween(n, mid, hi) ELSE sqrtBetween(n, lo, mid - 1)

sqrt(n) == sqrtBetween(n, 0, 46340)

\* Math.cos(lat * Math.PI / 180) in thousandths, for a latitude in units of 1e-4
\* degree: the Taylor polynomial of order 6, on milliradians
cos(lat) ==
    LET x == (Abs(lat) * 1745) \div 1000000
        x2 == (x * x) \div 1000
        t2 == x2 \div 2
        t4 == (x2 * x2) \div 24000
        t6 == (t4 * x2) \div 30000
    IN  1000 - t2 + t4 - t6

\* R * Math.PI / 180 for one unit of 1e-4 degree, in decimeters
DmPerUnit == ((R \div 1000) * 17453 + 500000) \div 1000000

\* the power of ten by which a difference of coordinates is scaled down to at
\* most 280 units, where the squares below fit the integers of the model checker
RECURSIVE scaleOf(_)
scaleOf(d) == IF d <= 280 THEN 1 ELSE 10 * scaleOf(d \div 10)

\* R * c of calculateHaversineDistance, rounded to meters, from the differences
\* of the coordinates and the cosines of the two latitudes.  For the arcs of a
\* geofence, sin x = x and atan2(sqrt(a), sqrt(1-a)) = sqrt(a), so that
\* R * c = R * sqrt(dLat^2 + cos1 * cos2 * dLon^2); the squares make the sign of
\* a difference irrelevant.  To the meter for the arcs of a geofence (up to 280
\* units, about 3 km), to two digits beyond.
haversineMeters(dLat, dLon, cos1, cos2) ==
    LET k == IF scaleOf(Abs(dLat)) >= scaleOf(Abs(dLon))
             THEN scaleOf(Abs(dLat)) ELSE scaleOf(Abs(dLon))
        y == (Abs(dLat) \div k) * DmPerUnit
        x == (Abs(dLon) \div k) * DmPerUnit
        a == y * y + ((x * cos1) \div 1000) * ((x * cos2) \div 1000)
    IN  ((sqrt(a) + 5) \div 10) * k

\* mutant: the cosine of the first latitude is used for both points
calculateHaversineDistance_OneCosine(lat1, lon1, lat2, lon2) ==
    haversineMeters(lat2 - lat1, lon2 - lon1, cos(lat1), cos(lat1))

\* calculateHaversineDistance: the fallback of isWithinGeofence
calculateHaversineDistance(lat1, lon1, lat2, lon2) ==
    haversineMeters(lat2 - lat1, lon2 - lon1, cos(lat1), cos(lat2))

\* geolib.getPreciseDistance(from, to, 1) / geolib.getDistance(from, to): the
\* library is not part of the repository; it is taken to return the great-circle
\* distance between the two points, to the meter
getPreciseDistance(from, to) ==
    calculateHaversineDistance(from.latitude, from.longitude, to.latitude, to.longitude)

Throw(message) == [threw |-> TRUE, message |-> message]

NullLocation == [null |-> TRUE]

\* mutant: isWithinGPSBuffer is set for every point within the effective radius
isWithinGeofence_BufferFromZero(userLocation, labLocation, radius) ==
    IF userLocation = NullLocation \/ labLocation = NullLocation
    THEN Throw("Invalid location data provided")
    ELSE IF ~validateLocation(userLocation.latitude, userLocation.longitude)
    THEN Throw("Invalid user location coordinates")
    ELSE IF ~validateLocation(labLocation.latitude, labLocation.longitude)
    THEN Throw("Invalid lab location coordinates")
    ELSE
    LET from == [latitude |-> parseFloat(userLocation.latitude).v,
                 longitude |-> parseFloat(userLocation.longitude).v]
        to == [latitude |-> parseFloat(labLocation.latitude).v,
               longitude |-> parseFloat(labLocation.longitude).v]
        distance == IF geolib = "ok"
                    THEN getPreciseDistance(from, to)
                    ELSE calculateHaversineDistance(from.latitude, from.longitude,
                                                    to.latitude, to.longitude)
        radiusInMeters == radius
        effectiveRadius == radiusInMeters + GPS_ACCURACY_BUFFER
    IN  [threw |-> FALSE,
         isWithin |-> distance <= effectiveRadius,
         distance |-> distance,
         radiusInMeters |-> radiusInMeters,
         effectiveRadius |-> effectiveRadius,
         gpsAccuracyBuffer |-> GPS_ACCURACY_BUFFER,
         isWithinOriginalRadius |-> distance <= radiusInMeters,
         isWithinGPSBuffer |-> distance <= effectiveRadius]

\* isWithinGeofence(userLocation, labLocation, radius): what it returns, or the
\* error it throws.  The radius is the Number of the lab document, which
\* parseFloat leaves as it is.  bearing and distanceInKm are left out.
isWithinGeofence(userLocation, labLocation, radius) ==
    IF userLocation = NullLocation \/ labLocation = NullLocation
    THEN Throw("Invalid location data provided")
    ELSE IF ~validateLocation(userLocation.latitude, userLocation.longitude)
    THEN Throw("Invalid user location coordinates")
    ELSE IF ~validateLocation(labLocation.latitude, labLocation.longitude)
    THEN Throw("Invalid lab location coordinates")
    ELSE
    LET from == [latitude |-> parseFloat(userLocation.latitude).v,
                 longitude |-> parseFloat(userLocation.longitude).v]
        to == [latitude |-> parseFloat(labLocation.latitude).v,
               longitude |-> parseFloat(labLocation.longitude).v]
        distance == IF geolib = "ok"
                    THEN getPreciseDistance(from, to)
                    ELSE calculateHaversineDistance(from.latitude, from.longitude,
                                                    to.latitude, to.longitude)
        radiusInMeters == radius
        effectiveRadius == radiusInMeters + GPS_ACCURACY_BUFFER
    IN  [threw |-> FALSE,
         isWithin |-> distance <= effectiveRadius,
         distance |-> distance,
         radiusInMeters |-> radiusInMeters,
         effectiveRadius |-> effectiveRadius,
         gpsAccuracyBuffer |-> GPS_ACCURACY_BUFFER,
         isWithinOriginalRadius |-> distance <= radiusInMeters,
         isWithinGPSBuffer |-> distance <= effectiveRadius /\ distance > radiusInMeters]

Location(latitude, longitude) == [latitude |-> latitude, longitude |-> longitude]

NoCheck == [none |-> TRUE]

(* routes/auth.js: POST /login *)

\* body(field).isFloat({ min, max }): the value, as a string, reads as a number
\* from its first to its last character, and the number is within the bounds
isFloat(x, min, max) ==
    /\ Numeric(x)
    /\ parseFloat(x).v >= min * 10000
    /\ parseFloat(x).v <= max * 10000

NoUser == [none |-> TRUE]

Response(status, message) ==
    [status |-> status, message |-> message, token |-> FALSE, locationInfo |-> Undef]

\* mutant: the route without the try / catch around the geofence check: the
\* error of the evaluator reaches the outer catch
login_NoGeofenceCatch(body, user, labLocation, radius) ==
    IF \/ body = NullLocation
       \/ ~isFloat(body.latitude, -90, 90)
       \/ ~isFloat(body.longitude, -180, 180)
    THEN [response |-> Response(400, "Invalid latitude / longitude"), check |-> NoCheck]
    ELSE IF user = NoUser \/ ~user.passwordValid
    THEN [response |-> Response(401, "Invalid credentials"), check |-> NoCheck]
    ELSE IF user.role = "lab_employee"
    THEN LET userLocation == Location(parseFloat(body.latitude), parseFloat(body.longitude))
             check == isWithinGeofence(userLocation, labLocation, radius)
         IN  IF check.threw
             THEN [response |-> Response(500, "Server error"), check |-> check]
             ELSE IF ~check.isWithin
             THEN [response |-> Response(403, "Access denied. You must be within the lab premises to login."),
                   check |-> check]
             ELSE [response |-> Response(500, "Server error"), check |-> check]
    ELSE [response |-> [status |-> 200, message |-> "Login successful", token |-> TRUE,
                        locationInfo |-> "null"],
          check |-> NoCheck]

\* router.post('/login', ...), the route with the GPS accuracy handling: the
\* response, and the geofence check it made.  The database calls succeed.
\*  - validation errors of the body: 400;
\*  - no such user, or a wrong password: 401;
\*  - a lab_employee: the evaluator is called inside a try block; an error it
\*    throws is answered 400, a point outside the effective radius 403;
\*  - the token is signed and the success response is built.  Its locationInfo
\*    is null unless the user is a lab_employee; for a lab_employee it reads
\*    geofenceCheck, a const of the try block above that is not declared here:
\*    the ReferenceError goes to the outer catch, which answers 500.
login(body, user, labLocation, radius) ==
    IF \/ body = NullLocation
       \/ ~isFloat(body.latitude, -90, 90)
       \/ ~isFloat(body.longitude, -180, 180)
    THEN [response |-> Response(400, "Invalid latitude / longitude"), check |-> NoCheck]
    ELSE IF user = NoUser \/ ~user.passwordValid
    THEN [response |-> Response(401, "Invalid credentials"), check |-> NoCheck]
    ELSE IF user.role = "lab_employee"
    THEN LET userLocation == Location(parseFloat(body.latitude), parseFloat(body.longitude))
             check == isWithinGeofence(userLocation, labLocation, radius)
         IN  IF check.threw
             THEN [response |-> Response(400, "Invalid location data provided"), check |-> check]
             ELSE IF ~check.isWithin
             THEN [response |-> Response(403, "Access denied. You must be within the lab premises to login."),
                   check |-> check]
             ELSE [response |-> Response(500, "Server error"), check |-> check]
    ELSE [response |-> [status |-> 200, message |-> "Login successful", token |-> TRUE,
                        locationInfo |-> "null"],
          check |-> NoCheck]

(* Inputs of the evaluator and of the route *)

\* the lab of the login scenario (12.9720, 77.5946), a lab on the null island,
\* and a lab with a coordinate that is not a number
ValidLabs == {Location(Num(129720), Num(775946)), Location(Num(0), Num(0))}
LabLocations == ValidLabs \cup {Location(Num(129720), UndefinedValue)}

\* positions around a lab: along the meridian up to MaxOffset units either way,
\* and two off it
Offsets == {<<d, 0>> : d \in (0 - MaxOffset)..MaxOffset}
               \cup {<<0, MaxOffset>>, <<MaxOffset, 0 - MaxOffset>>}

NearLocations ==
    {Location(Num(lab.latitude.v + o[1]), Num(lab.longitude.v + o[2])) :
        lab \in ValidLabs, o \in Offsets}

\* the corners of the valid range, and points with a single zero coordinate
FarLocations ==
    {Location(Num(90 * 10000), Num(180 * 10000)),
     Location(Num(-90 * 10000), Num(-180 * 10000)),
     Location(Num(0), Num(775946)),
     Location(Num(129720), Num(0))}

OutOfRangeLocations ==
    {Location(Num(90 * 10000 + 1), Num(0)),
     Location(Num(0), Num(-180 * 10000 - 1)),
     Location(Num(129720), Num(180 * 10000 + 1))}

\* coordinates that are strings: "13", "-13", "13a", "a", ""
StringCoordinates ==
    {Str(<<"1", "3">>), Str(<<"-", "1", "3">>), Str(<<"1", "3", "a">>), Str(<<"a">>),
     Str(<<>>)}

NonNumberLocations ==
    {Location(c, Num(775946)) : c \in StringCoordinates \cup {UndefinedValue, NaN}}
        \cup {Location(Num(129720), Str(<<"7", "8", "a">>)), Location(NaN, NaN)}

UserLocations ==
    NearLocations \cup FarLocations \cup OutOfRangeLocations \cup NonNumberLocations
        \cup {NullLocation}

\* the default of the parameter, the radii of the tolerance policy, and the
\* radius of the login scenario
Radii == {10, 20, 50, 100}

NoResponse == [none |-> TRUE]

\* the users of the lab: an employee, an admin, with and without the right
\* password, and an email that is not in the database
LoginUsers ==
    [role : {"lab_employee", "lab_admin"}, passwordValid : BOOLEAN] \cup {NoUser}

-----------------------------------------------------------------------------
(* Actions *)

RelayInit ==
    /\ readyState = [c \in Conns |-> "NEW"]
    /\ webSocketConnections = EmptyMap
    /\ webSocketSessions = EmptyMap
    /\ timers = {}
    /\ now = 0
    /\ nextReap = REAP_INTERVAL_MS
    /\ sent = <<>>
    /\ last = Event("init", NullWs)
    /\ regDesktop = [s \in SessionIds |-> NoReg]
    /\ emptySince = [s \in SessionIds |-> -1]
    /\ nsteps = 0
    /\ inbox = {}

\* the relay makes no call of the evaluator
Init ==
    /\ RelayInit
    /\ geoUser = NullLocation
    /\ geoLab = NullLocation
    /\ geoRadius = 20
    /\ geolib = "ok"
    /\ geofenceCheck = NoCheck
    /\ loginUser = NoUser
    /\ loginResponse = NoResponse

\* wss.on('connection'): a fresh uuid, and the 'connected' greeting
Connect ==
    \E c \in Conns :
        /\ readyState[c] = "NEW"
        /\ \A d \in Conns : d < c => readyState[d] # "NEW"
        /\ readyState' = [readyState EXCEPT ![c] = "OPEN"]
        /\ sent' = <<[to |-> c, type |-> "connected", ok |-> TRUE,
                      body |-> [connectionId |-> c]]>>
        /\ last' = Event("connect", c)
        /\ UNCHANGED <<geoVars, inbox>>
        /\ UNCHANGED <<webSocketConnections, webSocketSessions, timers, now, nextReap,
                       regDesktop, emptySince, nsteps>>

\* ws.on('message') for a decodable envelope, from an open connection ws
Deliver(ws, type, data) ==
    /\ nsteps + 2 <= MaxSteps
    /\ Usable(type, data)
    /\ LET r == onMessage(ws, type, data) IN
        /\ webSocketConnections' = r.conns
        /\ webSocketSessions' = r.sessions
        /\ sent' = r.out
    /\ last' = Event(type, ws)
    /\ regDesktop' = regAfterMessage(ws, type, data)
    /\ emptySince' = emptyAfter(webSocketSessions')
    /\ nsteps' = nsteps + 2
    /\ UNCHANGED <<geoVars, inbox>>
    /\ UNCHANGED <<readyState, timers, now, nextReap>>

RegisterDesktop ==
    \E ws \in Conns, data \in DesktopRegData :
        /\ readyState[ws] = "OPEN"
        /\ Deliver(ws, "register_desktop", data)
RegisterMobile ==
    \E ws \in Conns, data \in MobileRegData :
        /\ readyState[ws] = "OPEN"
        /\ Deliver(ws, "register_mobile", data)
PasskeyAuthSuccess ==
    \E ws \in Conns, data \in ProofData :
        /\ readyState[ws] = "OPEN"
        /\ Deliver(ws, "passkey_auth_success", data)
PasskeyCreated ==
    \E ws \in Conns, data \in ProofData :
        /\ readyState[ws] = "OPEN"
        /\ Deliver(ws, "passkey_created", data)
RequestLocation ==
    \E ws \in Conns, data \in LocationRequestData :
        /\ readyState[ws] = "OPEN"
        /\ Deliver(ws, "request_location", data)
LocationReceived ==
    \E ws \in Conns, data \in LocationReceivedData :
        /\ readyState[ws] = "OPEN"
        /\ Deliver(ws, "location_received", data)
LocationCheckComplete ==
    \E ws \in Conns, data \in CheckCompleteData :
        /\ readyState[ws] = "OPEN"
        /\ Deliver(ws, "location_check_complete", data)
Ping ==
    \E ws \in Conns :
        /\ readyState[ws] = "OPEN"
        /\ Deliver(ws, "ping", NoData)
UnknownType ==
    \E ws \in Conns :
        /\ readyState[ws] = "OPEN"
        /\ Deliver(ws, "bogus", NoData)

\* ws.on('message') when JSON.parse throws
Malformed ==
    \E ws \in Conns :
        /\ readyState[ws] = "OPEN"
        /\ nsteps + 2 <= MaxSteps
        /\ sent' = invalidMessageFormat(ws).out
        /\ last' = Event("malformed", ws)
        /\ nsteps' = nsteps + 2
        /\ UNCHANGED <<geoVars, inbox>>
        /\ UNCHANGED <<readyState, webSocketConnections, webSocketSessions, timers, now,
                       nextReap, regDesktop, emptySince>>

\* the transport goes down: readyState leaves OPEN before the 'close' listener runs
TransportClose ==
    \E c \in Conns :
        /\ nsteps < MaxSteps
        /\ nsteps' = nsteps + 1
        /\ readyState[c] = "OPEN"
        /\ readyState' = [readyState EXCEPT ![c] = "CLOSED"]
        /\ sent' = <<>>
        /\ last' = Event("transport_close", c)
        /\ regDesktop' = [s \in SessionIds |->
                             IF regDesktop[s].conn = c THEN NoReg ELSE regDesktop[s]]
        /\ UNCHANGED <<geoVars, inbox>>
        /\ UNCHANGED <<webSocketConnections, webSocketSessions, timers, now, nextReap,
                       emptySince>>

\* mutant: a disconnect drops the session of the connection outright
handleWebSocketDisconnection_DropsSession(connectionId) ==
    IF Has(webSocketConnections, connectionId)
    THEN [conns |-> Del(webSocketConnections, connectionId),
          sessions |-> [x \in DOMAIN webSocketSessions \
                              {webSocketConnections[connectionId].sessionId}
                           |-> webSocketSessions[x]],
          timers |-> timers]
    ELSE [conns |-> webSocketConnections, sessions |-> webSocketSessions, timers |-> timers]

handleWebSocketDisconnection(connectionId) ==
    IF Has(webSocketConnections, connectionId)
    THEN LET sessionId == webSocketConnections[connectionId].sessionId
             type == webSocketConnections[connectionId].type
             sessions ==
                 IF Has(webSocketSessions, sessionId)
                 THEN IF type = "desktop"
                      THEN [webSocketSessions EXCEPT ![sessionId].desktopWs = NullWs]
                      ELSE [webSocketSessions EXCEPT ![sessionId].mobileWs = NullWs]
                 ELSE webSocketSessions
             arm == /\ Has(sessions, sessionId)
                    /\ sessions[sessionId].desktopWs = NullWs
                    /\ sessions[sessionId].mobileWs = NullWs
         IN  [conns |-> Del(webSocketConnections, connectionId),
              sessions |-> sessions,
              timers |-> IF arm
                         THEN timers \cup {[sessionId |-> sessionId, due |-> now + GRACE_MS]}
                         ELSE timers]
    ELSE [conns |-> webSocketConnections, sessions |-> webSocketSessions, timers |-> timers]

\* ws.on('close') / ws.on('error')
CloseEvent ==
    \E c \in Conns :
        /\ nsteps < MaxSteps
        /\ nsteps' = nsteps + 1
        /\ readyState[c] = "CLOSED"
        /\ readyState' = [readyState EXCEPT ![c] = "GONE"]
        /\ LET r == handleWebSocketDisconnection(c) IN
            /\ webSocketConnections' = r.conns
            /\ webSocketSessions' = r.sessions
            /\ timers' = r.timers
        /\ sent' = <<>>
        /\ last' = Event("close", c)
        /\ regDesktop' = [s \in SessionIds |->
                             IF \/ regDesktop[s].conn = c
                                \/ /\ Has(webSocketConnections, c)
                                   /\ webSocketConnections[c].sessionId = s
                             THEN NoReg ELSE regDesktop[s]]
        /\ emptySince' = emptyAfter(webSocketSessions')
        /\ UNCHANGED <<geoVars, inbox>>
        /\ UNCHANGED <<now, nextReap>>

\* mutant: the callback finds nothing to delete
graceTimeout_Never(sessionId) == webSocketSessions

\* the setTimeout callback of the disconnect handler
graceTimeout(sessionId) ==
    IF Has(webSocketSessions, sessionId) THEN Del(webSocketSessions, sessionId)
    ELSE webSocketSessions

TimerFire ==
    \E t \in timers :
        /\ nsteps < MaxSteps
        /\ nsteps' = nsteps + 1
        /\ t.due <= now
        /\ timers' = timers \ {t}
        /\ webSocketSessions' = graceTimeout(t.sessionId)
        /\ sent' = <<>>
        /\ last' = Event("timer", NullWs)
        /\ regDesktop' = [regDesktop EXCEPT ![t.sessionId] = NoReg]
        /\ emptySince' = emptyAfter(webSocketSessions')
        /\ UNCHANGED <<geoVars, inbox>>
        /\ UNCHANGED <<readyState, webSocketConnections, now, nextReap>>

\* mutant: the reaper spares sessions that still have a slot bound
cleanupOldWebSocketSessions_SkipsBound ==
    [s \in {x \in DOMAIN webSocketSessions :
                \/ ~(webSocketSessions[x].createdAt < now - MAX_AGE_MS)
                \/ ~EmptySlots(webSocketSessions, x)}
        |-> webSocketSessions[s]]

cleanupOldWebSocketSessions ==
    LET oneHourAgo == now - MAX_AGE_MS IN
    [s \in {x \in DOMAIN webSocketSessions : ~(webSocketSessions[x].createdAt < oneHourAgo)}
        |-> webSocketSessions[s]]

\* setInterval(cleanupOldWebSocketSessions, 60 * 60 * 1000)
Reaper ==
    /\ nsteps < MaxSteps
    /\ nsteps' = nsteps + 1
    /\ nextReap <= now
    /\ nextReap' = nextReap + REAP_INTERVAL_MS
    /\ webSocketSessions' = cleanupOldWebSocketSessions
    /\ sent' = <<>>
    /\ last' = Event("reap", NullWs)
    /\ regDesktop' = [s \in SessionIds |->
                         IF Has(webSocketSessions', s) THEN regDesktop[s] ELSE NoReg]
    /\ emptySince' = emptyAfter(webSocketSessions')
    /\ UNCHANGED <<geoVars, inbox>>
    /\ UNCHANGED <<readyState, webSocketConnections, timers, now>>

\* time passes, by half a grace period or up to a scheduled callback; a callback
\* that is due runs before the clock moves on
Tick ==
    \E d \in {HalfGrace, nextReap - now} \cup {t.due - now : t \in timers} :
        /\ nsteps < MaxSteps
        /\ nsteps' = nsteps + 1
        /\ d > 0
        /\ d = HalfGrace => timers # {}
        /\ now + d <= MaxTime
        /\ \A t \in timers : now + d <= t.due
        /\ now + d <= nextReap
        /\ now' = now + d
        /\ sent' = <<>>
        /\ last' = Event("tick", NullWs)
        /\ UNCHANGED <<geoVars, inbox>>
        /\ UNCHANGED <<readyState, webSocketConnections, webSocketSessions, timers,
                       nextReap, regDesktop, emptySince>>

Next ==
    \/ Connect
    \/ RegisterDesktop
    \/ RegisterMobile
    \/ PasskeyAuthSuccess
    \/ PasskeyCreated
    \/ RequestLocation
    \/ LocationReceived
    \/ LocationCheckComplete
    \/ Ping
    \/ UnknownType
    \/ Malformed
    \/ TransportClose
    \/ CloseEvent
    \/ TimerFire
    \/ Reaper
    \/ Tick

Spec == Init /\ [][Next]_vars

\* The relay from a later moment on: connection 1 has registered as the desktop
\* of the first session and has disconnected, all at time 0, so that the session
\* has both slots empty and its grace timer is pending.
DetachedInit ==
    /\ readyState = [c \in Conns |-> IF c = 1 THEN "GONE" ELSE "NEW"]
    /\ webSocketConnections = EmptyMap
    /\ now = 0
    /\ \E data \in DesktopRegData :
          /\ data.sessionId = SessionOrder[1]
          /\ webSocketSessions = Put(EmptyMap, data.sessionId, newSession(NullWs, data))
    /\ timers = {[sessionId |-> SessionOrder[1], due |-> GRACE_MS]}
    /\ nextReap = REAP_INTERVAL_MS
    /\ sent = <<>>
    /\ last = Event("close", 1)
    /\ regDesktop = [s \in SessionIds |-> NoReg]
    /\ emptySince = [s \in SessionIds |-> IF s = SessionOrder[1] THEN 0 ELSE -1]
    /\ nsteps = 0
    /\ inbox = {}
    /\ geoUser = NullLocation
    /\ geoLab = NullLocation
    /\ geoRadius = 20
    /\ geolib = "ok"
    /\ geofenceCheck = NoCheck
    /\ loginUser = NoUser
    /\ loginResponse = NoResponse

DetachedSpec == DetachedInit /\ [][Next]_vars

-----------------------------------------------------------------------------
(* The relay with its clock running: the clients still have a bounded number *)
(* of events, but the timers of the event loop are not theirs to stop       *)

\* the last instant of the run with the clock running: two reaper periods past
\* the last instant of MaxTime, so that a session made by MaxTime has met the
\* reaper pass that finds it older than MAX_AGE_MS
LiveMaxTime == MaxTime + 2 * REAP_INTERVAL_MS

\* time passes; a callback that is due runs before the clock moves on
ClockTick ==
    \E d \in {HalfGrace, nextReap - now} \cup {t.due - now : t \in timers} :
        /\ d > 0
        /\ d = HalfGrace => timers # {}
        /\ now + d <= LiveMaxTime
        /\ \A t \in timers : now + d <= t.due
        /\ now + d <= nextReap
        /\ now' = now + d
        /\ sent' = <<>>
        /\ last' = Event("tick", NullWs)
        /\ UNCHANGED <<geoVars, inbox>>
        /\ UNCHANGED <<readyState, webSocketConnections, webSocketSessions, timers,
                       nextReap, regDesktop, emptySince, nsteps>>

\* the setTimeout callback of the disconnect handler, run by the event loop
TimerCallback ==
    \E t \in timers :
        /\ t.due <= now
        /\ timers' = timers \ {t}
        /\ webSocketSessions' = graceTimeout(t.sessionId)
        /\ sent' = <<>>
        /\ last' = Event("timer", NullWs)
        /\ regDesktop' = [regDesktop EXCEPT ![t.sessionId] = NoReg]
        /\ emptySince' = emptyAfter(webSocketSessions')
        /\ UNCHANGED <<geoVars, inbox>>
        /\ UNCHANGED <<readyState, webSocketConnections, now, nextReap, nsteps>>

\* setInterval(cleanupOldWebSocketSessions, 60 * 60 * 1000), run by the event loop
ReaperInterval ==
    /\ nextReap <= now
    /\ nextReap' = nextReap + REAP_INTERVAL_MS
    /\ webSocketSessions' = cleanupOldWebSocketSessions
    /\ sent' = <<>>
    /\ last' = Event("reap", NullWs)
    /\ regDesktop' = [s \in SessionIds |->
                         IF Has(webSocketSessions', s) THEN regDesktop[s] ELSE NoReg]
    /\ emptySince' = emptyAfter(webSocketSessions')
    /\ UNCHANGED <<geoVars, inbox>>
    /\ UNCHANGED <<readyState, webSocketConnections, timers, now, nsteps>>

LiveNext ==
    \/ Connect
    \/ RegisterDesktop
    \/ RegisterMobile
    \/ PasskeyAuthSuccess
    \/ TransportClose
    \/ CloseEvent
    \/ ClockTick
    \/ TimerCallback
    \/ ReaperInterval

\* Node's event loop runs every callback that is due, and the clock does not stop
LiveSpec ==
    /\ Init
    /\ [][LiveNext]_vars
    /\ WF_vars(ClockTick)
    /\ WF_vars(TimerCallback)
    /\ WF_vars(ReaperInterval)

(* The relay with clients that answer: each connection registers once, and a *)
(* client that is prompted sends the answer of the location flow            *)

\* the messages a client answers: the desktop answers request_location_from_mobile
\* and location_received, the mobile answers request_location
Prompts == {"request_location_from_mobile", "request_location", "location_received"}

\* the prompts among the sends of a step that reached an open socket
prompted(out) ==
    {[conn |-> out[i].to, type |-> out[i].type] :
        i \in {j \in DOMAIN out : out[j].type \in Prompts /\ out[j].ok}}

\* ws.on('message') for a message of a client that takes note of its prompts;
\* `answered` are the prompts this message answers
ClientSend(ws, type, data, cost, answered) ==
    /\ nsteps + cost <= MaxSteps
    /\ readyState[ws] = "OPEN"
    /\ Usable(type, data)
    /\ LET r == onMessage(ws, type, data) IN
        /\ webSocketConnections' = r.conns
        /\ webSocketSessions' = r.sessions
        /\ sent' = r.out
        /\ inbox' = (inbox \ answered) \cup prompted(r.out)
    /\ last' = Event(type, ws)
    /\ regDesktop' = regAfterMessage(ws, type, data)
    /\ emptySince' = emptyAfter(webSocketSessions')
    /\ nsteps' = nsteps + cost
    /\ UNCHANGED geoVars
    /\ UNCHANGED <<readyState, timers, now, nextReap>>

\* a connection registers, once, as the desktop or as the mobile of a session
FlowRegisterDesktop ==
    \E ws \in Conns, data \in DesktopRegData :
        /\ ~Has(webSocketConnections, ws)
        /\ ClientSend(ws, "register_desktop", data, 2, {})

FlowRegisterMobile ==
    \E ws \in Conns, data \in MobileRegData :
        /\ ~Has(webSocketConnections, ws)
        /\ ClientSend(ws, "register_mobile", data, 2, {})

\* a registered client sends a proof message
FlowProof ==
    \E ws \in Conns, type \in {"passkey_auth_success", "passkey_created"}, data \in ProofData :
        /\ Has(webSocketConnections, ws)
        /\ ClientSend(ws, type, data, 2, {})

\* the desktop answers request_location_from_mobile with request_location
DesktopRequestsLocation ==
    \E p \in inbox, data \in LocationRequestData :
        /\ p.type = "request_location_from_mobile"
        /\ ClientSend(p.conn, "request_location", data, 0, {p})

\* the mobile answers request_location with location_received, carrying its position
MobileSendsLocation ==
    \E p \in inbox, data \in {d \in LocationReceivedData : d.location # Undef} :
        /\ p.type = "request_location"
        /\ ClientSend(p.conn, "location_received", data, 0, {p})

\* the desktop answers location_received with location_check_complete
DesktopCompletesCheck ==
    \E p \in inbox, data \in CheckCompleteData :
        /\ p.type = "location_received"
        /\ ClientSend(p.conn, "location_check_complete", data, 0, {p})

FlowNext ==
    \/ Connect
    \/ FlowRegisterDesktop
    \/ FlowRegisterMobile
    \/ FlowProof
    \/ DesktopRequestsLocation
    \/ MobileSendsLocation
    \/ DesktopCompletesCheck

\* each client answers every prompt it receives
FlowSpec ==
    /\ Init
    /\ [][FlowNext]_vars
    /\ WF_vars(DesktopRequestsLocation)
    /\ WF_vars(MobileSendsLocation)
    /\ WF_vars(DesktopCompletesCheck)

(* The evaluator on its own: every initial state is a choice of its inputs *)

GeoInit ==
    /\ RelayInit
    /\ geoUser \in UserLocations
    /\ geoLab \in LabLocations
    /\ geoRadius \in Radii
    /\ geolib \in {"ok", "broken"}
    /\ geofenceCheck = NoCheck
    /\ loginUser \in LoginUsers
    /\ loginResponse = NoResponse

\* a call of isWithinGeofence on its own
Evaluate ==
    /\ geofenceCheck' = isWithinGeofence(geoUser, geoLab, geoRadius)
    /\ loginResponse' = NoResponse
    /\ UNCHANGED <<geoUser, geoLab, geoRadius, geolib, loginUser>>
    /\ UNCHANGED relayVars

\* POST /login with the position as the body's latitude and longitude
Login ==
    /\ LET r == login(geoUser, loginUser, geoLab, geoRadius) IN
        /\ loginResponse' = r.response
        /\ geofenceCheck' = r.check
    /\ UNCHANGED <<geoUser, geoLab, geoRadius, geolib, loginUser>>
    /\ UNCHANGED relayVars

\* the next login attempt comes from another position
NewFix ==
    \E location \in UserLocations :
        /\ location # geoUser
        /\ geoUser' = location
        /\ geofenceCheck' = NoCheck
        /\ loginResponse' = NoResponse
        /\ UNCHANGED <<geoLab, geoRadius, geolib, loginUser>>
        /\ UNCHANGED relayVars

GeoNext ==
    \/ Evaluate
    \/ Login
    \/ NewFix

GeoSpec == GeoInit /\ [][GeoNext]_vars

-----------------------------------------------------------------------------
(* Read-only lookup *)

\* POST /api/websocket/verify-session
verifySession(sessionId) ==
    IF Has(webSocketSessions, sessionId)
    THEN LET session == webSocketSessions[sessionId] IN
         [status |-> 200, valid |-> TRUE,
          hasAuth |-> session.authData # Undef,
          hasLocation |-> session.locationData # Undef,
          requireLocation |-> session.requireLocation,
          userEmail |-> session.userEmail, labName |-> session.labName]
    ELSE [status |-> 404, valid |-> FALSE]

-----------------------------------------------------------------------------
(* Vocabulary of the properties *)

\* the step just taken handled inbound message `type` with payload `data` from ws
Handled(ws, type, data) ==
    /\ last' = Event(type, ws)
    /\ readyState[ws] = "OPEN"
    /\ Deliver(ws, type, data)

Registered(ws) == Has(webSocketConnections, ws)
SessionOf(ws) == webSocketConnections[ws].sessionId
ProofTypes == {"passkey_auth_success", "passkey_created"}
WithAuthData == {d \in ProofData : d.authData # Undef}
WithoutAuthData == {d \in ProofData : d.authData = Undef}

\* the sends of the last step, reduced to <<recipient, type>>
Wire(out) == [i \in DOMAIN out |-> <<out[i].to, out[i].type>>]
SentTypes(out) == {out[i].type : i \in DOMAIN out}
\* how many messages of `type` the last step addressed to ws
Count(out, ws, type) == Cardinality({i \in DOMAIN out : out[i].to = ws /\ out[i].type = type})
\* the connections bound in the slots of a session, desktop first
BoundSlots(session) ==
    (IF session.desktopWs # NullWs THEN <<session.desktopWs>> ELSE <<>>)
    \o (IF session.mobileWs # NullWs THEN <<session.mobileWs>> ELSE <<>>)

\* the spec's protocol states, read off the session record (the code keeps no state field)
AwaitingProof(session) ==
    /\ session.desktopWs # NullWs
    /\ session.mobileWs # NullWs
    /\ session.authData = Undef
    /\ session.locationData = Undef
    /\ session.locationCheckResult = Undef

-----------------------------------------------------------------------------
(* C1 *)

\* what C1 states about the register_desktop step and the slots and messages of
\* the register_mobile step that follows it
C1_Paired(ws, data) ==
    LET s == data.sessionId
        d == regDesktop[s].conn
    IN  /\ Has(webSocketSessions', s)
        /\ webSocketSessions'[s].desktopWs = d
        /\ webSocketSessions'[s].mobileWs = ws
        /\ Wire(sent') = << <<ws, "mobile_registered">>, <<d, "mobile_connected">> >>
        /\ \A i \in DOMAIN sent' : sent'[i].ok
        /\ sent'[1].body.requireLocation = webSocketSessions'[s].requireLocation
        /\ sent'[1].body.mode = webSocketSessions'[s].mode

C1_DesktopStep ==
    \A ws \in Conns, data \in DesktopRegData :
        Handled(ws, "register_desktop", data) =>
            /\ Wire(sent') = << <<ws, "desktop_registered">> >>
            /\ sent'[1].ok
            /\ Has(webSocketSessions', data.sessionId)
            /\ webSocketSessions'[data.sessionId].desktopWs = ws

C1_Follows(ws, data) ==
    /\ Handled(ws, "register_mobile", data)
    /\ regDesktop[data.sessionId].conn # NullWs
    /\ regDesktop[data.sessionId].conn # ws

-----------------------------------------------------------------------------
(* C2 *)

\* C2: a register_mobile naming a session id that has no session is answered with
\* an error to the sender, creates no session and leaves every session unchanged.
C2_MobileNeedsSession ==
    [][ \A ws \in Conns, data \in MobileRegData :
            (Handled(ws, "register_mobile", data) /\ ~Has(webSocketSessions, data.sessionId)) =>
                /\ Wire(sent') = << <<ws, "error">> >>
                /\ sent'[1].ok
                /\ webSocketSessions' = webSocketSessions ]_vars

\* a register_mobile was just refused for a session id after the grace timer of a
\* session has run (the clock only leaves 0 before the first reaper pass while a
\* grace timer is pending) and collected it
C2_Witness ==
    /\ last.ev = "register_mobile"
    /\ Wire(sent) = << <<last.conn, "error">> >>
    /\ Registered(last.conn)
    /\ DOMAIN webSocketSessions = {}
    /\ now > 0 /\ now < REAP_INTERVAL_MS /\ timers = {}

-----------------------------------------------------------------------------
(* C3 *)

\* C3 as stated: with requireLocation false, a proof message carrying authData for
\* an existing session attaches the proof and addresses access_granted exactly once
\* to each bound slot of the session, whether or not the desktop slot is bound.
C3_Original ==
    [][ \A ws \in Conns, type \in ProofTypes, data \in WithAuthData :
            ( /\ Handled(ws, type, data)
              /\ Registered(ws)
              /\ Has(webSocketSessions, SessionOf(ws))
              /\ ~webSocketSessions[SessionOf(ws)].requireLocation ) =>
                LET session == webSocketSessions'[SessionOf(ws)]
                    grants == SelectSeq(sent', LAMBDA m : m.type = "access_granted")
                IN  /\ session.authData # Undef
                    /\ Wire(grants) = [i \in DOMAIN BoundSlots(session) |->
                                          <<BoundSlots(session)[i], "access_granted">>] ]_vars

-----------------------------------------------------------------------------
(* C4 *)

\* the sends C4 expects of a location_check_complete, from the message alone
C4_Verdict(data) == IF data.success THEN "access_granted" ELSE "access_denied"

\* C4: a location_check_complete for an existing session attaches the outcome it
\* carries; every bound slot is sent access_granted with the message's distance and
\* location when success is true, access_denied with the error reason when it is
\* false, never the other verdict; then the mobile, if bound, is sent a mirrored
\* location_check_complete with the same success value.
C4_CheckComplete ==
    [][ \A ws \in Conns, data \in CheckCompleteData :
            ( /\ Handled(ws, "location_check_complete", data)
              /\ Registered(ws)
              /\ Has(webSocketSessions, SessionOf(ws)) ) =>
                LET before == webSocketSessions[SessionOf(ws)]
                    session == webSocketSessions'[SessionOf(ws)]
                    peers == BoundSlots(before)
                    n == Len(peers)
                IN  /\ session.locationCheckResult =
                          [success |-> data.success, distance |-> data.distance,
                           location |-> data.location, error |-> data.error]
                    /\ Len(sent') = n + (IF before.mobileWs # NullWs THEN 1 ELSE 0)
                    /\ \A i \in 1..n :
                        /\ sent'[i].to = peers[i]
                        /\ sent'[i].type = C4_Verdict(data)
                        /\ sent'[i].body.distance = data.distance
                        /\ sent'[i].body.location = data.location
                        /\ (~data.success /\ data.error # Undefined) =>
                              sent'[i].body.message = data.error
                    /\ before.mobileWs # NullWs =>
                        /\ sent'[n + 1].to = before.mobileWs
                        /\ sent'[n + 1].type = "location_check_complete"
                        /\ sent'[n + 1].body.success = data.success
                    /\ \A i \in DOMAIN sent' : sent'[i].ok = (readyState[sent'[i].to] = "OPEN") ]_vars

\* the desktop has just reported success and both peers were sent access_granted
C4_Witness ==
    /\ last.ev = "location_check_complete"
    /\ \E s \in SessionIds :
        /\ Has(webSocketSessions, s)
        /\ webSocketSessions[s].desktopWs = last.conn
        /\ webSocketSessions[s].mobileWs \notin {NullWs, last.conn}
        /\ webSocketSessions[s].locationCheckResult # Undef
        /\ webSocketSessions[s].locationCheckResult.success
        /\ Wire(sent) = << <<last.conn, "access_granted">>,
                           <<webSocketSessions[s].mobileWs, "access_granted">>,
                           <<webSocketSessions[s].mobileWs, "location_check_complete">> >>

\* the desktop has just reported failure and both peers were sent access_denied
C4_WitnessDenied ==
    /\ last.ev = "location_check_complete"
    /\ \E s \in SessionIds :
        /\ Has(webSocketSessions, s)
        /\ webSocketSessions[s].locationCheckResult # Undef
        /\ ~webSocketSessions[s].locationCheckResult.success
        /\ Count(sent, webSocketSessions[s].desktopWs, "access_denied") = 1
        /\ Count(sent, webSocketSessions[s].mobileWs, "access_denied") = 1

-----------------------------------------------------------------------------
(* C5 *)

C5_Kind(type) == IF type = "passkey_auth_success" THEN "authentication" ELSE "creation"

\* the step just taken handled a proof message with authData from a connection
\* registered for the existing session s
C5_ProofFor(s, ws, type, data) ==
    /\ Handled(ws, type, data)
    /\ Registered(ws)
    /\ SessionOf(ws) = s

\* C5: a session holds at most one AuthProofRecord, a single record; a proof message
\* with authData replaces it by the record built from that message (kind
\* authentication for passkey_auth_success, creation for passkey_created), and no
\* other step changes the record of a session that stays in the store.
C5_LastProofWins ==
    [][ \A s \in SessionIds :
          /\ (Has(webSocketSessions, s) /\ Has(webSocketSessions', s)) =>
                LET old == webSocketSessions[s].authData
                    new == webSocketSessions'[s].authData
                IN  /\ \A ws \in Conns, type \in ProofTypes, data \in WithAuthData :
                          C5_ProofFor(s, ws, type, data) =>
                              /\ DOMAIN new = {"success", "credential", "userEmail",
                                               "deviceInfo", "timestamp", "type"}
                              /\ new.type = C5_Kind(type)
                              /\ new.success
                              /\ new.timestamp = now
                              /\ new.credential = IF data.authData.credential = Undefined
                                                  THEN "test-credential-id"
                                                  ELSE data.authData.credential
                              /\ new.userEmail = IF data.authData.userEmail = Undefined
                                                 THEN webSocketSessions[s].userEmail
                                                 ELSE data.authData.userEmail
                    /\ (~\E ws \in Conns, type \in ProofTypes, data \in WithAuthData :
                            C5_ProofFor(s, ws, type, data)) => new = old
          /\ (~Has(webSocketSessions, s) /\ Has(webSocketSessions', s)) =>
                webSocketSessions'[s].authData = Undef ]_vars

\* a passkey_created of the mobile has just left a record of kind creation, stamped
\* later than the session's creation
C5_Witness ==
    /\ last.ev = "passkey_created"
    /\ "passkey_created_confirmed" \in SentTypes(sent)
    /\ Registered(last.conn)
    /\ Has(webSocketSessions, SessionOf(last.conn))
    /\ LET session == webSocketSessions[SessionOf(last.conn)] IN
        /\ session.mobileWs = last.conn
        /\ session.authData # Undef
        /\ session.authData.type = "creation"
        /\ session.authData.timestamp = now
        /\ session.authData.timestamp > session.createdAt

-----------------------------------------------------------------------------
(* C6 *)

\* C6: a proof message without authData from a registered connection is answered
\* with error to the sender only, and leaves the session store and the connection
\* registry as they were.
C6_MissingAuthData ==
    [][ \A ws \in Conns, type \in ProofTypes, data \in WithoutAuthData :
            (Handled(ws, type, data) /\ Registered(ws)) =>
                /\ Wire(sent') = << <<ws, "error">> >>
                /\ sent'[1].ok
                /\ sent'[1].body.message = "No authentication data received"
                /\ webSocketSessions' = webSocketSessions
                /\ webSocketConnections' = webSocketConnections ]_vars

\* the mobile of a paired session has just been refused a proof without authData
C6_Witness ==
    /\ last.ev \in ProofTypes
    /\ Wire(sent) = << <<last.conn, "error">> >>
    /\ sent[1].body.message = "No authentication data received"
    /\ Registered(last.conn)
    /\ Has(webSocketSessions, SessionOf(last.conn))
    /\ webSocketSessions[SessionOf(last.conn)].mobileWs = last.conn
    /\ webSocketSessions[SessionOf(last.conn)].desktopWs \notin {NullWs, last.conn}
    /\ webSocketSessions[SessionOf(last.conn)].authData = Undef

-----------------------------------------------------------------------------
(* C7 *)

\* C7 as stated: a proof message changes the AuthProofRecord of a session only when
\* its sender is the connection bound in that session's mobile slot.
C7_Original ==
    [][ \A ws \in Conns, type \in ProofTypes, data \in ProofData, s \in SessionIds :
            ( /\ Handled(ws, type, data)
              /\ Has(webSocketSessions, s)
              /\ Has(webSocketSessions', s)
              /\ webSocketSessions'[s].authData # webSocketSessions[s].authData ) =>
                webSocketSessions[s].mobileWs = ws ]_vars

-----------------------------------------------------------------------------
(* C8 *)

C8_Confirm(type) == IF type = "passkey_auth_success" THEN "passkey_verified_confirmed"
                    ELSE "passkey_created_confirmed"
C8_Notify(type) == IF type = "passkey_auth_success" THEN "passkey_verified"
                   ELSE "passkey_created"

\* C8: a proof message with authData for a session whose requireLocation is true and
\* whose desktop slot is bound sends the confirmation to the sender, then the proof
\* notification and request_location_from_mobile to the desktop, and nothing else
\* (no access_granted, no access_denied); the session then has the proof attached,
\* still requires location, and its location and outcome are untouched.
C8_ProofThenLocation ==
    [][ \A ws \in Conns, type \in ProofTypes, data \in WithAuthData :
            ( /\ Handled(ws, type, data)
              /\ Registered(ws)
              /\ Has(webSocketSessions, SessionOf(ws))
              /\ webSocketSessions[SessionOf(ws)].requireLocation
              /\ webSocketSessions[SessionOf(ws)].desktopWs # NullWs ) =>
                LET before == webSocketSessions[SessionOf(ws)]
                    session == webSocketSessions'[SessionOf(ws)]
                IN  /\ Wire(sent') = << <<ws, C8_Confirm(type)>>,
                                        <<before.desktopWs, C8_Notify(type)>>,
                                        <<before.desktopWs, "request_location_from_mobile">> >>
                    /\ sent'[1].ok
                    /\ sent'[2].body.authData = session.authData
                    /\ sent'[3].body.authData = session.authData
                    /\ session.authData # Undef
                    /\ session.requireLocation
                    /\ session.locationData = before.locationData
                    /\ session.locationCheckResult = before.locationCheckResult ]_vars

\* the mobile of a paired session has just proved itself and the desktop was told
\* to request the location
C8_Witness ==
    /\ last.ev \in ProofTypes
    /\ Registered(last.conn)
    /\ Has(webSocketSessions, SessionOf(last.conn))
    /\ LET session == webSocketSessions[SessionOf(last.conn)] IN
        /\ session.mobileWs = last.conn
        /\ session.desktopWs \notin {NullWs, last.conn}
        /\ session.requireLocation
        /\ session.authData # Undef
        /\ session.locationCheckResult = Undef
        /\ Len(sent) = 3
        /\ sent[3].to = session.desktopWs
        /\ sent[3].type = "request_location_from_mobile"
        /\ sent[3].ok

-----------------------------------------------------------------------------
(* C9 *)

\* C9 as stated, for a registered sender: request_location is forwarded to the
\* mobile only if the session has a proof attached and a bound mobile; otherwise
\* the sender gets error and nothing goes to the mobile.
C9_Original ==
    [][ \A ws \in Conns, data \in LocationRequestData :
            (Handled(ws, "request_location", data) /\ Registered(ws)) =>
                LET s == SessionOf(ws)
                    ready == /\ Has(webSocketSessions, s)
                             /\ webSocketSessions[s].authData # Undef
                             /\ webSocketSessions[s].mobileWs # NullWs
                IN  /\ webSocketSessions' = webSocketSessions
                    /\ IF ready
                       THEN Wire(sent') = << <<webSocketSessions[s].mobileWs, "request_location">> >>
                       ELSE Wire(sent') = << <<ws, "error">> >> ]_vars

-----------------------------------------------------------------------------
(* C10 *)

WithLocation == {d \in LocationReceivedData : d.location # Undef}

\* C10: a location_received carrying a location, from a registered connection,
\* stores the location in the session and forwards location_received to the desktop
\* when the session exists with its desktop slot bound; when the session is missing
\* or its desktop slot is empty the sender gets error and the session store is unchanged.
C10_LocationReceived ==
    [][ \A ws \in Conns, data \in WithLocation :
            (Handled(ws, "location_received", data) /\ Registered(ws)) =>
                LET s == SessionOf(ws) IN
                IF Has(webSocketSessions, s) /\ webSocketSessions[s].desktopWs # NullWs
                THEN /\ webSocketSessions'[s].locationData = data.location
                     /\ webSocketSessions' =
                           [webSocketSessions EXCEPT ![s].locationData = data.location]
                     /\ Wire(sent') = << <<webSocketSessions[s].desktopWs, "location_received">> >>
                     /\ sent'[1].body.location.latitude = data.location.latitude
                     /\ sent'[1].body.location.longitude = data.location.longitude
                     /\ sent'[1].body.location.accuracy = data.location.accuracy
                ELSE /\ Wire(sent') = << <<ws, "error">> >>
                     /\ sent'[1].ok
                     /\ webSocketSessions' = webSocketSessions ]_vars

\* the mobile has just been refused a location because the desktop slot is empty
C10_Witness ==
    /\ last.ev = "location_received"
    /\ Wire(sent) = << <<last.conn, "error">> >>
    /\ sent[1].body.message = "Desktop not connected"
    /\ Registered(last.conn)
    /\ Has(webSocketSessions, SessionOf(last.conn))
    /\ webSocketSessions[SessionOf(last.conn)].desktopWs = NullWs
    /\ webSocketSessions[SessionOf(last.conn)].mobileWs = last.conn
    /\ webSocketSessions[SessionOf(last.conn)].locationData = Undef

\* the mobile's location has just been stored and forwarded to the desktop
C10_WitnessStored ==
    /\ last.ev = "location_received"
    /\ Registered(last.conn)
    /\ Has(webSocketSessions, SessionOf(last.conn))
    /\ webSocketSessions[SessionOf(last.conn)].locationData # Undef
    /\ webSocketSessions[SessionOf(last.conn)].mobileWs = last.conn
    /\ Wire(sent) = << <<webSocketSessions[SessionOf(last.conn)].desktopWs, "location_received">> >>

-----------------------------------------------------------------------------
(* C11 *)

\* the payloads an inbound message of each type is drawn from
Payloads(type) ==
    CASE type = "register_desktop" -> DesktopRegData
      [] type = "register_mobile" -> MobileRegData
      [] type \in ProofTypes -> ProofData
      [] type = "request_location" -> LocationRequestData
      [] type = "location_received" -> LocationReceivedData
      [] type = "location_check_complete" -> CheckCompleteData
      [] OTHER -> {NoData}

ProtocolTypes == MessageTypes \ {"ping", "bogus"}

\* Resolved, as far as the session record shows it: a GeofenceOutcome is attached
\* (a grant on the no-location path leaves no trace in the record)
Resolved(session) == session.locationCheckResult # Undef

\* C11 as stated: once a session has an outcome attached, no inbound protocol
\* message for it changes its proof, location or outcome, and none makes the
\* server emit a further access_granted or access_denied.
C11_Original ==
    [][ \A ws \in Conns, type \in ProtocolTypes : \A data \in Payloads(type) :
            LET s == TargetOf(ws, type, data) IN
            ( /\ Handled(ws, type, data)
              /\ Has(webSocketSessions, s)
              /\ Resolved(webSocketSessions[s]) ) =>
                /\ Has(webSocketSessions', s)
                /\ webSocketSessions'[s].authData = webSocketSessions[s].authData
                /\ webSocketSessions'[s].locationData = webSocketSessions[s].locationData
                /\ webSocketSessions'[s].locationCheckResult =
                      webSocketSessions[s].locationCheckResult
                /\ SentTypes(sent') \cap {"access_granted", "access_denied"} = {} ]_vars

-----------------------------------------------------------------------------
(* C12 *)

\* the handlers that look their sender up in the connection registry
RegistryTypes == ProofTypes \cup {"request_location", "location_received",
                                  "location_check_complete"}

\* C12 as stated: a proof, request_location, location_received or
\* location_check_complete message from a connection that never registered, and a
\* location_check_complete whose session no longer exists, are each answered with
\* an error message to the sender.
C12_Original ==
    [][ \A ws \in Conns, type \in RegistryTypes : \A data \in Payloads(type) :
            ( /\ Handled(ws, type, data)
              /\ \/ ~Registered(ws)
                 \/ /\ type = "location_check_complete"
                    /\ ~Has(webSocketSessions, SessionOf(ws)) ) =>
                Count(sent', ws, "error") >= 1 ]_vars

-----------------------------------------------------------------------------
(* C13 *)

\* the step just taken handled an envelope from ws that JSON.parse rejected
Undecodable(ws) ==
    /\ readyState[ws] = "OPEN"
    /\ nsteps' = nsteps + 2
    /\ last' = Event("malformed", ws)

\* C13: a message of unrecognized type, and an envelope that cannot be decoded,
\* are answered with exactly one error to the sender, and leave the session store
\* and the connection registry as they were.
C13_UnknownOrUndecodable ==
    [][ \A ws \in Conns :
            (Handled(ws, "bogus", NoData) \/ Undecodable(ws)) =>
                /\ Wire(sent') = << <<ws, "error">> >>
                /\ sent'[1].ok
                /\ webSocketSessions' = webSocketSessions
                /\ webSocketConnections' = webSocketConnections ]_vars

\* a connection bound in a live session has just sent an undecodable envelope
C13_Witness ==
    /\ last.ev = "malformed"
    /\ Wire(sent) = << <<last.conn, "error">> >>
    /\ sent[1].body.message = "Invalid message format"
    /\ Registered(last.conn)
    /\ Has(webSocketSessions, SessionOf(last.conn))
    /\ last.conn \in {webSocketSessions[SessionOf(last.conn)].desktopWs,
                      webSocketSessions[SessionOf(last.conn)].mobileWs}

\* a registered connection has just sent a message of unrecognized type
C13_WitnessUnknown ==
    /\ last.ev = "bogus"
    /\ Wire(sent) = << <<last.conn, "error">> >>
    /\ sent[1].body.message = "Unknown message type"
    /\ Registered(last.conn)
    /\ Has(webSocketSessions, SessionOf(last.conn))

-----------------------------------------------------------------------------
(* C14 *)

\* the proof, location and outcome of a session record
ProofState(session) ==
    <<session.authData, session.locationData, session.locationCheckResult>>

\* the step just taken ran the 'close' listener of connection c
Closed(c) ==
    /\ readyState[c] = "CLOSED"
    /\ readyState'[c] = "GONE"
    /\ last' = Event("close", c)

\* C14, step by step.  A disconnect followed by a re-registration with the same
\* session id and role is made of a 'close' step, steps that are not about the
\* session, and a register_* step on the still existing session:
\*  - the close of a registered connection leaves the proof, location and outcome
\*    of its session as they were;
\*  - a step that is neither a message for a session nor the close of one of its
\*    connections leaves its record as it was, while the session exists;
\*  - register_desktop / register_mobile for an existing session leaves its proof,
\*    location and outcome as they were, binds the slot of that role to the
\*    sender and leaves the slot of the other role alone.
C14_ReconnectKeepsState ==
    [][ /\ \A c \in Conns :
            ( /\ Closed(c)
              /\ Registered(c)
              /\ Has(webSocketSessions, SessionOf(c)) ) =>
                /\ Has(webSocketSessions', SessionOf(c))
                /\ ProofState(webSocketSessions'[SessionOf(c)]) =
                      ProofState(webSocketSessions[SessionOf(c)])
        /\ \A s \in SessionIds :
            ( /\ Has(webSocketSessions, s)
              /\ Has(webSocketSessions', s)
              /\ \A c \in Conns : ~(Closed(c) /\ Registered(c) /\ SessionOf(c) = s)
              /\ \A ws \in Conns, type \in ProtocolTypes : \A data \in Payloads(type) :
                    ~(Handled(ws, type, data) /\ TargetOf(ws, type, data) = s) ) =>
                webSocketSessions'[s] = webSocketSessions[s]
        /\ \A ws \in Conns, data \in DesktopRegData :
            ( /\ Handled(ws, "register_desktop", data)
              /\ Has(webSocketSessions, data.sessionId) ) =>
                LET before == webSocketSessions[data.sessionId]
                    session == webSocketSessions'[data.sessionId]
                IN  /\ ProofState(session) = ProofState(before)
                    /\ session.desktopWs = ws
                    /\ session.mobileWs = before.mobileWs
        /\ \A ws \in Conns, data \in MobileRegData :
            ( /\ Handled(ws, "register_mobile", data)
              /\ Has(webSocketSessions, data.sessionId) ) =>
                LET before == webSocketSessions[data.sessionId]
                    session == webSocketSessions'[data.sessionId]
                IN  /\ ProofState(session) = ProofState(before)
                    /\ session.mobileWs = ws
                    /\ session.desktopWs = before.desktopWs ]_vars

\* a desktop has just re-registered, from a new connection, for a session that
\* holds an outcome and whose previous connection has disconnected
C14_Witness ==
    /\ last.ev = "register_desktop"
    /\ Registered(last.conn)
    /\ Has(webSocketSessions, SessionOf(last.conn))
    /\ webSocketSessions[SessionOf(last.conn)].desktopWs = last.conn
    /\ webSocketSessions[SessionOf(last.conn)].locationCheckResult # Undef
    /\ \E d \in Conns \ {last.conn} : readyState[d] = "GONE"
    /\ \E t \in timers : t.sessionId = SessionOf(last.conn)

-----------------------------------------------------------------------------
(* C15 *)

\* C15: a session whose two slots have both been empty for longer than the grace
\* period is not in the session store: verify-session answers 404 for it.  Stated
\* on the store: a session that verify-session finds with both slots empty has
\* been so for at most GRACE_MS.
C15_GraceCollects ==
    \A s \in SessionIds :
        (verifySession(s).valid /\ EmptySlots(webSocketSessions, s)) =>
            /\ emptySince[s] >= 0
            /\ now - emptySince[s] <= GRACE_MS

\* the grace timer has just collected a session whose peer disconnected a grace
\* period ago: verify-session no longer finds it
C15_Witness ==
    /\ last.ev = "timer"
    /\ now >= GRACE_MS
    /\ verifySession("S1").status = 404
    /\ \E c \in Conns : readyState[c] = "GONE"
    /\ timers = {}

-----------------------------------------------------------------------------
(* C16 *)

\* the step just taken ran a due callback of the disconnect handler
TimerFired ==
    /\ last' = Event("timer", NullWs)
    /\ \E t \in timers : t.due <= now /\ timers' = timers \ {t}

\* C16 as stated: the grace timer never removes a session that has a desktop or
\* a mobile connection bound at the moment the timer fires.
C16_Original ==
    [][ \A s \in SessionIds :
            ( /\ TimerFired
              /\ Has(webSocketSessions, s)
              /\ ~EmptySlots(webSocketSessions, s) ) =>
                Has(webSocketSessions', s) ]_vars

-----------------------------------------------------------------------------
(* C17 *)

\* the step just taken was a pass of the hourly reaper
Reaped ==
    /\ last' = Event("reap", NullWs)
    /\ nextReap' = nextReap + REAP_INTERVAL_MS

\* C17: a pass of the reaper removes every session created more than MAX_AGE_MS
\* before the pass, bound or not, and leaves every other session as it was; the
\* creation time of a session never changes while the session is in the store.
C17_ReaperByAge ==
    [][ /\ Reaped =>
            \A s \in DOMAIN webSocketSessions :
                IF now - webSocketSessions[s].createdAt > MAX_AGE_MS
                THEN ~Has(webSocketSessions', s)
                ELSE /\ Has(webSocketSessions', s)
                     /\ webSocketSessions'[s] = webSocketSessions[s]
        /\ \A s \in SessionIds :
            (Has(webSocketSessions, s) /\ Has(webSocketSessions', s)) =>
                webSocketSessions'[s].createdAt = webSocketSessions[s].createdAt ]_vars

\* the reaper has just removed a session whose desktop is still open and
\* registered: no connection has ever closed, so no grace timer was ever armed
C17_Witness ==
    /\ last.ev = "reap"
    /\ now = 2 * REAP_INTERVAL_MS
    /\ ~Has(webSocketSessions, "S1")
    /\ \E c \in Conns :
        /\ readyState[c] = "OPEN"
        /\ Registered(c)
        /\ webSocketConnections[c] = [sessionId |-> "S1", type |-> "desktop"]
        /\ \A d \in Conns \ {c} : readyState[d] = "NEW"

\* the reaper has just passed over a session that is exactly one hour old
C17_WitnessYoung ==
    /\ last.ev = "reap"
    /\ Has(webSocketSessions, "S1")
    /\ now - webSocketSessions["S1"].createdAt = MAX_AGE_MS

-----------------------------------------------------------------------------
(* C18 *)

\* C18: no inbound message removes a session from the store; a session leaves
\* the store only in a step of the grace timer or of the reaper.
C18_NoClientDelete ==
    [][ /\ \A ws \in Conns, type \in MessageTypes : \A data \in Payloads(type) :
            Handled(ws, type, data) =>
                \A s \in SessionIds : Has(webSocketSessions, s) => Has(webSocketSessions', s)
        /\ \A ws \in Conns :
            Undecodable(ws) => DOMAIN webSocketSessions' = DOMAIN webSocketSessions
        /\ \A s \in SessionIds :
            (Has(webSocketSessions, s) /\ ~Has(webSocketSessions', s)) =>
                (TimerFired \/ Reaped) ]_vars

\* a verdict has just been handled for a session that holds proof, location and
\* outcome, and the session is still in the store
C18_Witness ==
    /\ last.ev = "location_check_complete"
    /\ Registered(last.conn)
    /\ Has(webSocketSessions, SessionOf(last.conn))
    /\ webSocketSessions[SessionOf(last.conn)].authData # Undef
    /\ webSocketSessions[SessionOf(last.conn)].locationCheckResult # Undef
    /\ SentTypes(sent) \cap {"access_granted", "access_denied"} # {}

-----------------------------------------------------------------------------
(* C19 *)

\* the slots, over all sessions, that reference connection c
SlotsOf(c) ==
    {<<s, "desktop">> : s \in {x \in DOMAIN webSocketSessions :
                                   webSocketSessions[x].desktopWs = c}}
    \cup
    {<<s, "mobile">> : s \in {x \in DOMAIN webSocketSessions :
                                  webSocketSessions[x].mobileWs = c}}

\* C19 as stated: in every reachable state each connection is referenced by at
\* most one slot over all sessions (a session record has one desktop and one
\* mobile slot by construction).
C19_Original ==
    \A c \in Conns : Cardinality(SlotsOf(c)) <= 1

-----------------------------------------------------------------------------
(* C20 *)

\* C20: when the 'close' listener of a registered connection runs, the connection
\* leaves the registry (no other entry changes); if its session is in the store,
\* the session stays there with the slot of the connection's role cleared and
\* every other field (proof, location, outcome, requireLocation, mode, the other
\* role's slot) as it was, and no other session changes.
C20_CloseClearsSlot ==
    [][ \A c \in Conns :
            (Closed(c) /\ Registered(c)) =>
                LET s == SessionOf(c)
                    type == webSocketConnections[c].type
                IN  /\ webSocketConnections' = Del(webSocketConnections, c)
                    /\ DOMAIN webSocketSessions' = DOMAIN webSocketSessions
                    /\ \A x \in DOMAIN webSocketSessions :
                        x # s => webSocketSessions'[x] = webSocketSessions[x]
                    /\ Has(webSocketSessions, s) =>
                        webSocketSessions'[s] =
                            IF type = "desktop"
                            THEN [webSocketSessions[s] EXCEPT !.desktopWs = NullWs]
                            ELSE [webSocketSessions[s] EXCEPT !.mobileWs = NullWs] ]_vars

\* the mobile of a session that holds a proof has just closed: the mobile slot,
\* once bound by a register_mobile (mode is recorded), is empty, the desktop is
\* still bound and registered, and the proof is still attached
C20_Witness ==
    /\ last.ev = "close"
    /\ readyState[last.conn] = "GONE"
    /\ ~Registered(last.conn)
    /\ \E s \in SessionIds :
        /\ Has(webSocketSessions, s)
        /\ webSocketSessions[s].mobileWs = NullWs
        /\ webSocketSessions[s].desktopWs \notin {NullWs, last.conn}
        /\ readyState[webSocketSessions[s].desktopWs] = "OPEN"
        /\ Registered(webSocketSessions[s].desktopWs)
        /\ webSocketConnections[webSocketSessions[s].desktopWs] =
              [sessionId |-> s, type |-> "desktop"]
        /\ webSocketSessions[s].mode # Undefined
        /\ webSocketSessions[s].authData # Undef

-----------------------------------------------------------------------------
(* C21 *)

\* the connections the sends of a step are addressed to
Recipients(out) == {out[i].to : i \in DOMAIN out}

\* the connections bound in the slots of session s, if it exists
SlotSet(sessions, s) ==
    IF Has(sessions, s)
    THEN {sessions[s].desktopWs, sessions[s].mobileWs} \ {NullWs}
    ELSE {}

\* every session other than s is in the store after the step iff it was before,
\* with the same record
OthersUntouched(s) ==
    \A x \in SessionIds \ {s} :
        /\ Has(webSocketSessions', x) <=> Has(webSocketSessions, x)
        /\ Has(webSocketSessions, x) => webSocketSessions'[x] = webSocketSessions[x]

\* C21: handling an inbound message for session S (the id a registration names,
\* the session of the sender otherwise), an undecodable envelope, or the close of
\* a connection registered for S, leaves every other session's record as it was,
\* and addresses messages only to the sender and to the connections bound in the
\* slots of S.
C21_OtherSessionsUntouched ==
    [][ /\ \A ws \in Conns, type \in MessageTypes : \A data \in Payloads(type) :
            Handled(ws, type, data) =>
                LET s == TargetOf(ws, type, data) IN
                /\ OthersUntouched(s)
                /\ Recipients(sent') \subseteq
                      {ws} \cup SlotSet(webSocketSessions, s) \cup SlotSet(webSocketSessions', s)
        /\ \A ws \in Conns :
            Undecodable(ws) =>
                /\ OthersUntouched("none")
                /\ Recipients(sent') \subseteq {ws}
        /\ \A c \in Conns :
            Closed(c) =>
                /\ OthersUntouched(IF Registered(c) THEN SessionOf(c) ELSE "none")
                /\ sent' = <<>> ]_vars

\* a verdict has just been broadcast in one session while another session has a
\* connection of its own bound: that connection was sent nothing
C21_Witness ==
    /\ last.ev = "location_check_complete"
    /\ Registered(last.conn)
    /\ Has(webSocketSessions, SessionOf(last.conn))
    /\ sent # <<>>
    /\ \E x \in SessionIds \ {SessionOf(last.conn)} :
        /\ Has(webSocketSessions, x)
        /\ webSocketSessions[x].desktopWs \notin {NullWs, last.conn}
        /\ webSocketSessions[x].desktopWs \notin
              SlotSet(webSocketSessions, SessionOf(last.conn))
        /\ readyState[webSocketSessions[x].desktopWs] = "OPEN"
        /\ webSocketSessions[x].desktopWs \notin Recipients(sent)
        /\ webSocketSessions[x].locationCheckResult = Undef

-----------------------------------------------------------------------------
(* C22 *)

\* C22: handlers run to completion, so a location_received from the mobile of a
\* session and the 'close' of its desktop are handled one after the other.  If
\* the location is handled while the desktop slot is still bound (also when the
\* desktop's transport is already down and its 'close' listener has not run yet),
\* the location is stored and the forward to the desktop is attempted; if the
\* close was handled first, the mobile gets error and nothing is stored.  The
\* close itself stores nothing and sends nothing.
C22_LocationVersusClose ==
    [][ /\ \A ws \in Conns, data \in WithLocation :
            ( /\ Handled(ws, "location_received", data)
              /\ Registered(ws)
              /\ Has(webSocketSessions, SessionOf(ws))
              /\ webSocketSessions[SessionOf(ws)].mobileWs = ws ) =>
                LET s == SessionOf(ws)
                    desktop == webSocketSessions[s].desktopWs
                IN  IF desktop # NullWs
                    THEN /\ webSocketSessions'[s].locationData = data.location
                         /\ Wire(sent') = << <<desktop, "location_received">> >>
                         /\ sent'[1].ok = (readyState[desktop] = "OPEN")
                    ELSE /\ webSocketSessions'[s] = webSocketSessions[s]
                         /\ Wire(sent') = << <<ws, "error">> >>
        /\ \A c \in Conns :
            ( /\ Closed(c)
              /\ Registered(c)
              /\ webSocketConnections[c].type = "desktop"
              /\ Has(webSocketSessions, SessionOf(c)) ) =>
                /\ webSocketSessions'[SessionOf(c)].locationData =
                      webSocketSessions[SessionOf(c)].locationData
                /\ webSocketSessions'[SessionOf(c)].desktopWs = NullWs
                /\ sent' = <<>> ]_vars

\* the location won the race: the desktop's transport is down, its 'close'
\* listener has not run, the location is stored and the forward was dropped
C22_Witness ==
    /\ last.ev = "location_received"
    /\ Registered(last.conn)
    /\ Has(webSocketSessions, SessionOf(last.conn))
    /\ webSocketSessions[SessionOf(last.conn)].mobileWs = last.conn
    /\ webSocketSessions[SessionOf(last.conn)].desktopWs \notin {NullWs, last.conn}
    /\ readyState[webSocketSessions[SessionOf(last.conn)].desktopWs] = "CLOSED"
    /\ webSocketSessions[SessionOf(last.conn)].locationData # Undef
    /\ Len(sent) = 1
    /\ sent[1].type = "location_received"
    /\ ~sent[1].ok

\* the close won the race: the desktop slot is empty, the mobile got error and
\* no location is stored
C22_WitnessCloseFirst ==
    /\ last.ev = "location_received"
    /\ Registered(last.conn)
    /\ Has(webSocketSessions, SessionOf(last.conn))
    /\ webSocketSessions[SessionOf(last.conn)].mobileWs = last.conn
    /\ webSocketSessions[SessionOf(last.conn)].desktopWs = NullWs
    /\ webSocketSessions[SessionOf(last.conn)].locationData = Undef
    /\ \E d \in Conns : readyState[d] = "GONE"
    /\ Wire(sent) = << <<last.conn, "error">> >>

-----------------------------------------------------------------------------
(* C23 *)

\* C23: a ping, from a registered connection or not, is answered with exactly one
\* pong, to the sender, and leaves the session store and the connection registry
\* as they were.
C23_PingPong ==
    [][ \A ws \in Conns :
            Handled(ws, "ping", NoData) =>
                /\ Wire(sent') = << <<ws, "pong">> >>
                /\ sent'[1].ok
                /\ webSocketSessions' = webSocketSessions
                /\ webSocketConnections' = webSocketConnections ]_vars

\* a connection that never registered has just been answered pong while a
\* session with another connection bound exists
C23_Witness ==
    /\ last.ev = "ping"
    /\ ~Registered(last.conn)
    /\ Wire(sent) = << <<last.conn, "pong">> >>
    /\ \E s \in SessionIds :
        /\ Has(webSocketSessions, s)
        /\ webSocketSessions[s].desktopWs \notin {NullWs, last.conn}
        /\ readyState[webSocketSessions[s].desktopWs] = "OPEN"

-----------------------------------------------------------------------------
(* C24 *)

\* the call has returned a result
Evaluated == geofenceCheck # NoCheck /\ ~geofenceCheck.threw

\* the tolerance the evaluator applies to a radius
ToleranceOf(check) == check.effectiveRadius - check.radiusInMeters

\* C24 as stated: the tolerance applied by the evaluator is 0 for radius 10, at
\* most 5 for radius 20, at most 20 for radius 100 and for every other radius,
\* and does not decrease when the radius grows; a point is within the geofence
\* only if its distance is at most the radius plus that tolerance.
C24_Original ==
    Evaluated =>
        /\ (geoRadius = 10) => ToleranceOf(geofenceCheck) = 0
        /\ (geoRadius = 20) => ToleranceOf(geofenceCheck) <= 5
        /\ ToleranceOf(geofenceCheck) <= 20
        /\ \A r \in Radii :
              LET other == isWithinGeofence(geoUser, geoLab, r) IN
              (r <= geoRadius) => ToleranceOf(other) <= ToleranceOf(geofenceCheck)
        /\ geofenceCheck.isWithin =>
              geofenceCheck.distance <= geoRadius + (IF geoRadius <= 10 THEN 0
                                                     ELSE IF geoRadius <= 20 THEN 5
                                                     ELSE 20)

-----------------------------------------------------------------------------
(* C25 *)

\* the point has numeric coordinates, the latitude in [-90, 90] and the longitude
\* in [-180, 180]
ValidPoint(location) ==
    /\ location # NullLocation
    /\ Numeric(location.latitude)
    /\ Numeric(location.longitude)
    /\ parseFloat(location.latitude).v \in (-90 * 10000)..(90 * 10000)
    /\ parseFloat(location.longitude).v \in (-180 * 10000)..(180 * 10000)

InvalidLocationErrors ==
    {"Invalid location data provided", "Invalid user location coordinates",
     "Invalid lab location coordinates"}

-----------------------------------------------------------------------------
(* C26 *)

C26_WitnessNear ==
    /\ Evaluated
    /\ geolib = "ok"
    /\ geoLab = Location(Num(129720), Num(775946))
    /\ geoUser = Location(Num(129716), Num(775946))
    /\ geofenceCheck.distance = 44

-----------------------------------------------------------------------------
(* C27 *)

\* the message types a registration step may send
RegistrationReplies ==
    {"desktop_registered", "mobile_registered", "mobile_connected", "error"}

-----------------------------------------------------------------------------
(* C28 *)

\* C28: access_granted is sent only in a step that handles (a) a proof message
\* with authData for a session whose requireLocation is false, or (b) a
\* location_check_complete with success = true, and only to the slots of the
\* sender's session.  So a step that sends access_granted for a session whose
\* requireLocation is true is a successful location_check_complete.
C28_GrantCauses ==
    [][ /\ \A ws \in Conns, type \in MessageTypes : \A data \in Payloads(type) :
            ( /\ Handled(ws, type, data)
              /\ "access_granted" \in SentTypes(sent') ) =>
                /\ Registered(ws)
                /\ Has(webSocketSessions, SessionOf(ws))
                /\ \/ /\ type \in ProofTypes
                      /\ data.authData # Undef
                      /\ ~webSocketSessions[SessionOf(ws)].requireLocation
                   \/ /\ type = "location_check_complete"
                      /\ data.success
                /\ \A i \in DOMAIN sent' :
                      sent'[i].type = "access_granted" =>
                          sent'[i].to \in SlotSet(webSocketSessions, SessionOf(ws))
        /\ (last'.ev \notin ProofTypes \cup {"location_check_complete"}) =>
                "access_granted" \notin SentTypes(sent') ]_vars

\* a proof has just granted access in a session that does not require location:
\* no outcome was ever reported for it
C28_Witness ==
    /\ last.ev \in ProofTypes
    /\ Registered(last.conn)
    /\ Has(webSocketSessions, SessionOf(last.conn))
    /\ ~webSocketSessions[SessionOf(last.conn)].requireLocation
    /\ webSocketSessions[SessionOf(last.conn)].locationCheckResult = Undef
    /\ webSocketSessions[SessionOf(last.conn)].mobileWs = last.conn
    /\ webSocketSessions[SessionOf(last.conn)].desktopWs \notin {NullWs, last.conn}
    /\ Count(sent, webSocketSessions[SessionOf(last.conn)].desktopWs, "access_granted") = 1
    /\ "access_granted" \in SentTypes(sent)

\* a successful verdict has just granted access in a session that requires
\* location and holds a proof
C28_WitnessLocation ==
    /\ last.ev = "location_check_complete"
    /\ Registered(last.conn)
    /\ Has(webSocketSessions, SessionOf(last.conn))
    /\ webSocketSessions[SessionOf(last.conn)].requireLocation
    /\ webSocketSessions[SessionOf(last.conn)].authData # Undef
    /\ webSocketSessions[SessionOf(last.conn)].locationCheckResult # Undef
    /\ "access_granted" \in SentTypes(sent)

-----------------------------------------------------------------------------
(* C29 *)

\* C29 as stated: whenever access_granted is sent for a session, that session
\* has an AuthProofRecord attached.
C29_Original ==
    ( /\ "access_granted" \in SentTypes(sent)
      /\ Registered(last.conn)
      /\ Has(webSocketSessions, SessionOf(last.conn)) ) =>
        webSocketSessions[SessionOf(last.conn)].authData # Undef

-----------------------------------------------------------------------------
(* C30 *)

\* C30 as stated: a location_check_complete attaches an outcome or broadcasts a
\* verdict only when its sender is the connection bound in the desktop slot of
\* the session.
C30_Original ==
    [][ \A ws \in Conns, data \in CheckCompleteData :
            ( /\ Handled(ws, "location_check_complete", data)
              /\ \/ webSocketSessions' # webSocketSessions
                 \/ SentTypes(sent') \cap {"access_granted", "access_denied"} # {} ) =>
                /\ Registered(ws)
                /\ Has(webSocketSessions, SessionOf(ws))
                /\ webSocketSessions[SessionOf(ws)].desktopWs = ws ]_vars

-----------------------------------------------------------------------------
(* C31 *)

\* C31 as stated: the close of a connection clears a slot of its session only
\* if that slot references the closing connection, and arms a grace timer only
\* if it cleared a slot.
C31_Original ==
    [][ \A c \in Conns :
            ( /\ Closed(c)
              /\ Registered(c)
              /\ Has(webSocketSessions, SessionOf(c)) ) =>
                LET before == webSocketSessions[SessionOf(c)]
                    session == webSocketSessions'[SessionOf(c)]
                IN  /\ (before.desktopWs # c) => session.desktopWs = before.desktopWs
                    /\ (before.mobileWs # c) => session.mobileWs = before.mobileWs
                    /\ (before.desktopWs # c /\ before.mobileWs # c) => timers' = timers ]_vars

-----------------------------------------------------------------------------
(* C32 *)

\* C32 as stated, reading "still open" as "its 'close' has not been handled":
\* every non-empty slot of a session references a connection whose close has not
\* been handled and whose registry entry names that session and that role.
C32_Original ==
    \A s \in DOMAIN webSocketSessions :
        /\ (webSocketSessions[s].desktopWs # NullWs) =>
              /\ readyState[webSocketSessions[s].desktopWs] # "GONE"
              /\ Registered(webSocketSessions[s].desktopWs)
              /\ webSocketConnections[webSocketSessions[s].desktopWs] =
                    [sessionId |-> s, type |-> "desktop"]
        /\ (webSocketSessions[s].mobileWs # NullWs) =>
              /\ readyState[webSocketSessions[s].mobileWs] # "GONE"
              /\ Registered(webSocketSessions[s].mobileWs)
              /\ webSocketConnections[webSocketSessions[s].mobileWs] =
                    [sessionId |-> s, type |-> "mobile"]

-----------------------------------------------------------------------------
(* C33 *)

\* the relay is in the state DetachedSpec starts from, but for the work done
DetachedReached ==
    /\ readyState = [c \in Conns |-> IF c = 1 THEN "GONE" ELSE "NEW"]
    /\ webSocketConnections = EmptyMap
    /\ now = 0
    /\ DOMAIN webSocketSessions = {SessionOrder[1]}
    /\ EmptySlots(webSocketSessions, SessionOrder[1])
    /\ webSocketSessions[SessionOrder[1]].createdAt = 0
    /\ ProofState(webSocketSessions[SessionOrder[1]]) = <<Undef, Undef, Undef>>
    /\ timers = {[sessionId |-> SessionOrder[1], due |-> GRACE_MS]}
    /\ nextReap = REAP_INTERVAL_MS
    /\ sent = <<>>
    /\ last = Event("close", 1)
    /\ regDesktop = [s \in SessionIds |-> NoReg]
    /\ emptySince = [s \in SessionIds |-> IF s = SessionOrder[1] THEN 0 ELSE -1]

\* C33 as stated: when the grace timer removes a session whose slots are both
\* empty, they have been empty, without interruption, for a full grace period.
C33_Original ==
    [][ \A s \in SessionIds :
            ( /\ TimerFired
              /\ Has(webSocketSessions, s)
              /\ ~Has(webSocketSessions', s)
              /\ EmptySlots(webSocketSessions, s) ) =>
                /\ emptySince[s] >= 0
                /\ now - emptySince[s] >= GRACE_MS ]_vars

-----------------------------------------------------------------------------
(* C36 *)

\* what a proof step sends to the desktop
ProofNotices == {"passkey_verified", "passkey_created", "request_location_from_mobile"}

\* C36: the relay replays nothing.  A register_desktop, for a session with a
\* proof attached or not, sends desktop_registered to the sender and nothing
\* else; passkey_verified / passkey_created / request_location_from_mobile are
\* sent only by the step that handles a proof message with authData, and
\* access_granted only by the step that handles such a proof message or a
\* location_check_complete: a notice that was sent or skipped while the desktop
\* was away reaches it later only if a new message of that kind is handled.
C36_NoReplay ==
    [][ /\ \A ws \in Conns, data \in DesktopRegData :
            Handled(ws, "register_desktop", data) =>
                Wire(sent') = << <<ws, "desktop_registered">> >>
        /\ (SentTypes(sent') \cap ProofNotices # {}) =>
                /\ last'.ev \in ProofTypes
                /\ \E data \in WithAuthData : Handled(last'.conn, last'.ev, data)
        /\ ("access_granted" \in SentTypes(sent')) =>
                last'.ev \in ProofTypes \cup {"location_check_complete"} ]_vars

\* a desktop has just registered, from a new connection, for a session that
\* holds a proof and whose previous desktop has disconnected: it was sent
\* desktop_registered only
C36_Witness ==
    /\ last.ev = "register_desktop"
    /\ Registered(last.conn)
    /\ Has(webSocketSessions, SessionOf(last.conn))
    /\ webSocketSessions[SessionOf(last.conn)].desktopWs = last.conn
    /\ webSocketSessions[SessionOf(last.conn)].authData # Undef
    /\ webSocketSessions[SessionOf(last.conn)].requireLocation
    /\ \E d \in Conns \ {last.conn} : readyState[d] = "GONE"
    /\ Wire(sent) = << <<last.conn, "desktop_registered">> >>

-----------------------------------------------------------------------------
(* C37 *)

C37_WitnessNew ==
    /\ last.ev = "register_desktop"
    /\ Registered(last.conn)
    /\ Has(webSocketSessions, SessionOf(last.conn))
    /\ regDesktop[SessionOf(last.conn)] = [conn |-> last.conn, created |-> TRUE]
    /\ webSocketSessions[SessionOf(last.conn)].mobileWs = NullWs
    /\ webSocketSessions[SessionOf(last.conn)].requireLocation

-----------------------------------------------------------------------------
(* C38 *)

\* C38: the outputs of an evaluation agree with one another, for the distance d
\* it reports and the radius r it was given: effectiveRadius = r + the buffer;
\* isWithin iff d <= effectiveRadius; isWithinOriginalRadius iff d <= r;
\* isWithinGPSBuffer iff r < d <= effectiveRadius; hence within the radius implies
\* isWithin, and isWithin iff within the radius or within the buffer.
C38_OutputsConsistent ==
    Evaluated =>
        LET d == geofenceCheck.distance
            r == geoRadius
        IN  /\ geofenceCheck.radiusInMeters = r
            /\ geofenceCheck.effectiveRadius = r + geofenceCheck.gpsAccuracyBuffer
            /\ geofenceCheck.isWithin <=> (d <= geofenceCheck.effectiveRadius)
            /\ geofenceCheck.isWithinOriginalRadius <=> (d <= r)
            /\ geofenceCheck.isWithinGPSBuffer <=> (r < d /\ d <= geofenceCheck.effectiveRadius)
            /\ geofenceCheck.isWithinOriginalRadius => geofenceCheck.isWithin
            /\ geofenceCheck.isWithin <=>
                  (geofenceCheck.isWithinOriginalRadius \/ geofenceCheck.isWithinGPSBuffer)
            /\ ~(geofenceCheck.isWithinOriginalRadius /\ geofenceCheck.isWithinGPSBuffer)

\* a point beyond the radius has been found within the buffer
C38_Witness ==
    /\ Evaluated
    /\ geofenceCheck.distance > geoRadius
    /\ geofenceCheck.isWithin
    /\ geofenceCheck.isWithinGPSBuffer
    /\ ~geofenceCheck.isWithinOriginalRadius

\* a point has been found within the radius
C38_WitnessNominal ==
    /\ Evaluated
    /\ geofenceCheck.distance > 0
    /\ geofenceCheck.isWithinOriginalRadius
    /\ ~geofenceCheck.isWithinGPSBuffer

\* a point has been found beyond the buffer
C38_WitnessOutside ==
    /\ Evaluated
    /\ geofenceCheck.distance <= geoRadius + 2 * GPS_ACCURACY_BUFFER
    /\ ~geofenceCheck.isWithin

(* C39 *)

\* the route answered a user whose email and password were right
Answered == loginResponse # NoResponse /\ loginUser # NoUser /\ loginUser.passwordValid

\* the route called the evaluator
Checked == geofenceCheck # NoCheck

\* C39: when the evaluator fails with an invalid-location error during the
\* login of a lab employee, for the point of the user or the stored point of
\* the lab, the login is answered 400 "Invalid location data provided": no
\* token is issued and the answer is not a 500
C39_InvalidLocationIs400 ==
    (Answered /\ loginUser.role = "lab_employee" /\ Checked /\ geofenceCheck.threw)
        => /\ geofenceCheck.message \in InvalidLocationErrors
           /\ loginResponse.status = 400
           /\ loginResponse.message = "Invalid location data provided"
           /\ ~loginResponse.token

C39_Witness ==
    /\ Answered
    /\ loginUser.role = "lab_employee"
    /\ Checked
    /\ geofenceCheck.threw
    /\ ValidPoint(geoUser)
    /\ loginResponse.status = 400

(* C40 *)

\* C40 as stated: a lab employee for whom the evaluator reports isWithin true
\* gets a success response with a token and locationInfo (distance, whether
\* within the original radius, whether the GPS buffer was used); one for whom
\* it reports isWithin false gets 403; an admin is never geofence-checked
C40_Original ==
    Answered =>
        /\ (loginUser.role = "lab_employee" /\ Checked /\ ~geofenceCheck.threw /\ geofenceCheck.isWithin)
              => /\ loginResponse.status = 200
                 /\ loginResponse.token
                 /\ loginResponse.locationInfo \notin {Undef, "null"}
        /\ (loginUser.role = "lab_employee" /\ Checked /\ ~geofenceCheck.threw /\ ~geofenceCheck.isWithin)
              => /\ loginResponse.status = 403
                 /\ ~loginResponse.token
        /\ loginUser.role = "lab_admin" => ~Checked

(* C34 *)

\* C34: every session that is created is eventually removed from the session
\* store, given that time advances and the periodic reaper keeps running, even
\* if no disconnect event is ever delivered for its connections and even if
\* the session never leaves AwaitingProof (sessions created up to MaxTime: the
\* clock of the model stops two reaper periods later)
C34_EventuallyRemoved ==
    \A s \in SessionIds :
        (Has(webSocketSessions, s) /\ webSocketSessions[s].createdAt <= MaxTime)
            ~> ~Has(webSocketSessions, s)

\* the reaper has removed a session whose desktop is still registered and open,
\* and which no close event or grace timer ever concerned
C34_Witness ==
    /\ last.ev = "reap"
    /\ timers = {}
    /\ \E s \in SessionIds, c \in Conns :
        /\ ~Has(webSocketSessions, s)
        /\ readyState[c] = "OPEN"
        /\ Has(webSocketConnections, c)
        /\ webSocketConnections[c].sessionId = s
        /\ webSocketConnections[c].type = "desktop"
    /\ \A c \in Conns : readyState[c] \in {"NEW", "OPEN"}

(* C35 *)

\* a proof message with authData has just been handled for session s, which
\* requires the location and has both peers: the desktop was prompted
FlowProved(s) ==
    /\ last.ev \in ProofTypes
    /\ Has(webSocketConnections, last.conn)
    /\ webSocketConnections[last.conn].sessionId = s
    /\ Has(webSocketSessions, s)
    /\ webSocketSessions[s].requireLocation
    /\ webSocketSessions[s].authData # Undef
    /\ webSocketSessions[s].desktopWs # NullWs
    /\ webSocketSessions[s].mobileWs # NullWs
    /\ Count(sent, webSocketSessions[s].desktopWs, "request_location_from_mobile") = 1

\* session s is Resolved and the step just taken sent the verdict to both peers
FlowDone(s) ==
    /\ last.ev = "location_check_complete"
    /\ Has(webSocketSessions, s)
    /\ Resolved(webSocketSessions[s])
    /\ \E verdict \in {"access_granted", "access_denied"} :
        \A peer \in {webSocketSessions[s].desktopWs, webSocketSessions[s].mobileWs} :
            \E i \in DOMAIN sent :
                sent[i].to = peer /\ sent[i].type = verdict /\ sent[i].ok

\* C35: for a session with requireLocation = true whose two peers stay connected
\* and answer every prompt they receive (the desktop answers
\* request_location_from_mobile with request_location and location_received
\* with location_check_complete, the mobile answers request_location with
\* location_received), a proof message with authData is eventually followed by
\* the session being Resolved and both peers having been sent access_granted or
\* access_denied
C35_FlowCompletes ==
    \A s \in SessionIds : FlowProved(s) ~> FlowDone(s)

\* the flow has run to its end between two distinct peers
C35_Witness ==
    \E s \in SessionIds :
        /\ FlowDone(s)
        /\ webSocketSessions[s].requireLocation
        /\ webSocketSessions[s].authData # Undef
        /\ webSocketSessions[s].locationData # Undef
        /\ webSocketSessions[s].desktopWs # webSocketSessions[s].mobileWs
        /\ last.conn = webSocketSessions[s].desktopWs
        /\ inbox = {}

====
